---- MODULE Spec2Model ----
(***************************************************************************)
(* Work-Eye-Tracker: the capture-persist-sync pipeline.                    *)
(*                                                                         *)
(* DataManager (src/src/core/data_manager.py) keeps three data tables and  *)
(* a sync log in one SQLite file and synchronises them with sync_data.     *)
(* Every store operation runs inside "with self.db_lock", so each one is   *)
(* one atomic step here.  sync_data itself holds no lock across its        *)
(* statements: the callers of a DataManager (the QTimer created at line    *)
(* 36-37, a direct call of the public method, the threads that db_lock at  *)
(* line 39-40 is there for) interleave between its statements, and the     *)
(* model gives every such statement its own step.                          *)
(***************************************************************************)
EXTENDS Integers, Sequences, FiniteSets, TLC

\* ------------------------------------------------------------------ bounds
\* Rows inserted into each of system_metrics, eye_sessions, blink_events.
MaxRows == 1
\* Deliveries that fail or raise (random.random() <= 0.1, line 361) and
\* storage faults (an sqlite3 call that raises inside a store operation),
\* counted together.
MaxTroubles == 2
\* The largest reading of the wall clock datetime.now().
MaxClock == 2
\* Rows of sync_log after which sync_data is no longer triggered.
MaxLog == 2
\* Rows inserted in all when the store operations are called on their own.
MaxStoreRows == 2
\* Calls of start() on each sampler that start it.
MaxStarts == 2
\* Blinks recorded by the EyeTracker.
MaxBlinks == 2
\* The largest blinks-per-minute value classified.
MaxBpm == 20
\* Frames a tracking loop analyses.
MaxFrames == 12
\* Minutes on the clock of a tracking session.
MaxMinutes == 6
\* Blinks recorded in a tracking session.
MaxSessionBlinks == 3
\* Iterations of a monitoring loop.
MaxTicks == 2

\* ------------------------------------------------------------ value spaces
\* The execution contexts that call sync_data: the auto-sync QTimer and a
\* direct (manual) call of the public method.
SyncCtx == {"timer", "manual"}

\* _get_current_user_id() (line 396-399) returns this one user.
DemoUser == "demo_user"
Users == {DemoUser}

\* NULL of a TIMESTAMP / TEXT column, None of a Python attribute.
NoTime == 0

\* None of a metric that is a number, NULL of its column.
NoValue == -1
NoText == ""

\* (total_blinks, blinks_per_minute) pairs handed to end_eye_session.
SummaryInputs == {<<5, 9>>, <<12, 12>>}

\* The three data tables, by name.
Tables == {"system_metrics", "eye_sessions", "blink_events"}

VARIABLES
    system_metrics,      \* table system_metrics: rows in id order
    eye_sessions,        \* table eye_sessions: rows in id order
    blink_events,        \* table blink_events: rows in id order
    sync_log,            \* table sync_log: rows in id order
    is_syncing,          \* DataManager.is_syncing
    last_sync_time,      \* DataManager.last_sync_time (NoTime = None)
    pending_sync_count,  \* DataManager.pending_sync_count
    now,                 \* the wall clock read by datetime.now()
    pc,                  \* per calling context: where it is inside sync_data
    unsynced_count,      \* per calling context: the local unsynced_count
    status,              \* per calling context: last sync_status_changed text
    completed,           \* per calling context: last sync_completed value
    logged,              \* per calling context: sync_log rows its call appended
    batch,               \* per calling context: rows unsynced at its count
    rows_at_count,       \* per calling context: rows in the store at its count
    since_mark,          \* rows inserted since the last successful mark
    troubles,            \* failed deliveries and storage faults so far
    db_lock,             \* per DataManager: its db_lock is held
    call,                \* per thread: the store operation it is inside
    returned,            \* per thread: what its last store operation returned
    eye_tracker,         \* the EyeTracker object: its attributes
    system_monitor,      \* the SystemMonitor object: its attributes
    signals,             \* per Qt signal of the samplers: times emitted
    outcome,             \* the last call of a sampler method, whether it
                         \* raised and whether it emitted its signal
    process,             \* the application process: starting, running, exited
    constructed,         \* per DataManager: absent, ready, or failed to construct
    sync_timer,          \* per DataManager: its sync_timer is active
    dashboard_widget,    \* the rate update_display last read, and its label
    stats,               \* what the last get_session_stats returned
    tracking_loop,       \* the thread inside _tracking_loop: its position,
                         \* its local eye_closed_frames, what it observed
    emitted_blinks,      \* the times of the blinks emitted since start()
    blink_data,          \* what the last EyeTracker.get_current_data returned
    gui,                 \* the GUI thread: its position inside EyeTracker.stop()
    loops,               \* the Threads start() created, in order: where each
                         \* is inside _tracking_loop, and its local values
    monitoring_loop,     \* the thread inside _monitoring_loop: its position
                         \* in the tick, and the ticks it completed
    system_data          \* what the last SystemMonitor.get_current_data
                         \* returned

store == <<system_metrics, eye_sessions, blink_events, sync_log>>
fields == <<is_syncing, last_sync_time, pending_sync_count>>
locals == <<pc, unsynced_count, status, completed, logged, batch,
            rows_at_count>>
\* The DataManager whose sync_data is followed, with the store it writes.
data_manager == <<system_metrics, eye_sessions, blink_events, sync_log,
                  is_syncing, last_sync_time, pending_sync_count, now,
                  pc, unsynced_count, status, completed, logged, batch,
                  rows_at_count, since_mark, troubles>>

\* The threads that call store operations, and the locks they take.
callers == <<db_lock, call, returned>>

\* The two samplers, the signals they emit, and their last call.
samplers == <<eye_tracker, system_monitor, signals, outcome>>

\* The application process and the DataManager objects it constructs.
app == <<process, constructed, sync_timer, dashboard_widget, stats>>

\* The threads inside the samplers' loops and callbacks, what they emitted
\* and what readers of the samplers were handed.
threads == <<tracking_loop, emitted_blinks, blink_data, gui, loops,
             monitoring_loop, system_data>>

\* What lies outside the DataManager followed above.
ext == <<callers, samplers, app, threads>>

vars == <<data_manager, ext>>

\* ------------------------------------------------------------ the store
Table(t) ==
    CASE t = "system_metrics" -> system_metrics
      [] t = "eye_sessions"   -> eye_sessions
      [] t = "blink_events"   -> blink_events

\* A row of a data table is named by its table and its AUTOINCREMENT id.
RowIds == {<<t, i>> \in Tables \X (1..MaxRows + 1) : i <= Len(Table(t))}

Row(r) == Table(r[1])[r[2]]

TotalRows == Len(system_metrics) + Len(eye_sessions) + Len(blink_events)

UnsyncedRows == {r \in RowIds : ~Row(r).synced}

CountUnsynced(tbl) == Cardinality({i \in 1..Len(tbl) : ~tbl[i].synced})

\* SELECT COUNT( * ) ... WHERE synced = 0 over the three tables, summed.
UnsyncedTotal ==
    CountUnsynced(system_metrics) + CountUnsynced(eye_sessions)
        + CountUnsynced(blink_events)

\* A variant of the UPDATE without its WHERE clause that flips the flag.
MarkTable_Toggle(tbl) ==
    [i \in 1..Len(tbl) |-> [tbl[i] EXCEPT !.synced = ~tbl[i].synced]]

\* UPDATE <table> SET synced = 1 WHERE synced = 0
MarkTable(tbl) == [i \in 1..Len(tbl) |-> [tbl[i] EXCEPT !.synced = TRUE]]

\* A variant of the classification whose first threshold includes 10.
StrainLevel_Inclusive(bpm) ==
    IF bpm <= 10 THEN "high"
    ELSE IF bpm < 15 THEN "moderate"
    ELSE "normal"

\* The eye strain level end_eye_session derives from blinks per minute.
StrainLevel(bpm) ==
    IF bpm < 10 THEN "high"
    ELSE IF bpm < 15 THEN "moderate"
    ELSE "normal"

\* An sqlite3 call inside a store operation may raise, and a delivery may
\* fail; the budget bounds how often.
MayFault == troubles < MaxTroubles

Fault == troubles' = troubles + 1

\* ------------------------------------------------------- rows as inserted
\* INSERT INTO system_metrics (...): synced takes its DEFAULT 0.
NewMetricRow ==
    [user_id |-> DemoUser, timestamp |-> now,
     cpu_percent |-> system_monitor.current_metrics.cpu_percent,
     memory_percent |-> system_monitor.current_metrics.memory_percent,
     disk_usage_percent |->
         system_monitor.current_metrics.disk_usage_percent,
     network_available |->
         IF system_monitor.current_metrics.network_available THEN 1 ELSE 0,
     battery_percent |-> system_monitor.current_metrics.battery_percent,
     power_connected |->
         IF system_monitor.current_metrics.power_connected = "True"
         THEN 1 ELSE 0,
     synced |-> FALSE]

\* A variant of the INSERT that stamps the row with a later time.
NewSessionRow_Late(user_id) ==
    [user_id |-> user_id, session_start |-> now + 1, session_end |-> NoTime,
     total_blinks |-> 0, blinks_per_minute |-> 0,
     eye_strain_level |-> "normal", synced |-> FALSE]

\* INSERT INTO eye_sessions (user_id, session_start): the other columns take
\* their DEFAULTs (line 62-67).
NewSessionRow(user_id) ==
    [user_id |-> user_id, session_start |-> now, session_end |-> NoTime,
     total_blinks |-> 0, blinks_per_minute |-> 0,
     eye_strain_level |-> "normal", synced |-> FALSE]

\* INSERT INTO blink_events (user_id, session_id, timestamp); 0 is NULL.
NewBlinkRow(user_id, session_id) ==
    [user_id |-> user_id, session_id |-> session_id, timestamp |-> now,
     synced |-> FALSE]

\* A variant of the UPDATE that also writes synced = 0.
EndedSessionRow_Unsync(row, total_blinks, blinks_per_minute) ==
    [row EXCEPT !.session_end = now,
                !.total_blinks = total_blinks,
                !.blinks_per_minute = blinks_per_minute,
                !.synced = FALSE]

\* UPDATE eye_sessions SET session_end, total_blinks, blinks_per_minute,
\* eye_strain_level WHERE id = session_id: the row as updated.
EndedSessionRow(row, total_blinks, blinks_per_minute) ==
    [row EXCEPT !.session_end = now,
                !.total_blinks = total_blinks,
                !.blinks_per_minute = blinks_per_minute,
                !.eye_strain_level = StrainLevel(blinks_per_minute)]

\* INSERT INTO sync_log (sync_time, records_synced, success, error_message);
\* success is stored as 1 or 0 (line 389).
NewLogRow(records_synced, success, error_message) ==
    [sync_time |-> now, records_synced |-> records_synced,
     success |-> IF success THEN 1 ELSE 0,
     error_message |-> error_message]

\* ------------------------------------------------------------------ Init
\* The two DataManager objects of the application: MainWindow's
\* (main_window.py line 25) and DashboardWidget's (dashboard_widget.py line
\* 25).  Both open the same file, data/wellness_tracker.db (line 27).
Managers == {"main_window", "dashboard"}

\* The threads that call store operations.
Threads == {"t1", "t2"}

\* A thread that is inside no store operation.
NoCall == [op |-> "none", manager |-> "none"]

\* Each DataManager creates its own threading.Lock() (line 40), unlocked.
InitCallers ==
    /\ db_lock = [m \in Managers |-> FALSE]
    /\ call = [t \in Threads |-> NoCall]
    /\ returned = [t \in Threads |-> "none"]

\* EyeTracker.__init__ (eye_tracker.py line 21-48).  camera is None, an
\* opened VideoCapture or one that did not open; tracking_thread is None, or
\* the newest Thread, alive or ended (not alive: its loop ended, or it was
\* never started); old_loops counts the tracking loops of earlier Threads
\* that still run.
InitEyeTracker ==
    [is_running |-> FALSE, camera_available |-> FALSE, total_blinks |-> 0,
     session_start_time |-> NoTime, last_blink_time |-> NoTime,
     blink_history |-> <<>>, camera |-> "None", tracking_thread |-> "None",
     old_loops |-> 0, should_stop |-> FALSE, simulation_mode |-> FALSE,
     simulation_timer |-> FALSE, interval |-> 0]

\* SystemMonitor.__init__ (system_monitor.py line 22-49).
InitSystemMonitor ==
    [is_running |-> FALSE, should_stop |-> FALSE,
     monitoring_thread |-> "None", old_loops |-> 0,
     current_metrics |->
         [cpu_percent |-> 0, memory_percent |-> 0, disk_usage_percent |-> 0,
          network_available |-> FALSE, battery_percent |-> NoValue,
          power_connected |-> "None", process_count |-> 0]]

\* The Qt signals of the two samplers.
SamplerSignals == {"blink_detected", "tracking_started", "tracking_stopped",
                   "monitoring_started", "monitoring_stopped",
                   "metrics_updated"}

NoOutcome == [op |-> "none", raised |-> FALSE, emitted |-> FALSE]

InitSamplers ==
    /\ eye_tracker = InitEyeTracker
    /\ system_monitor = InitSystemMonitor
    /\ signals = [g \in SamplerSignals |-> 0]
    /\ outcome = NoOutcome

\* get_session_stats was not called.
NoStats == [returned |-> "none"]

\* No blinks-per-minute value read yet.
NoBpm == -1

\* The dashboard as built by init_ui: eye_strain_label is created with the
\* text "Normal" (dashboard_widget.py line 201); no statistics were asked.
\* is_monitoring and the two timers are as __init__ leaves them (line 28-32);
\* starts counts the calls of start_monitoring that set is_monitoring.
InitDashboard ==
    /\ dashboard_widget =
          [bpm |-> NoBpm, eye_strain_label |-> "Normal",
           is_monitoring |-> FALSE, update_timer |-> FALSE,
           save_timer |-> FALSE, starts |-> 0]
    /\ stats = NoStats

\* The application after its startup: main() is inside app.exec_() (main.py
\* line 46), both DataManager objects are constructed and their sync timers
\* run (line 46).
InitApp ==
    /\ process = "running"
    /\ constructed = [m \in Managers |-> "ready"]
    /\ sync_timer = [m \in Managers |-> TRUE]
    /\ InitDashboard

\* No thread is inside _tracking_loop (it is started by start(),
\* eye_tracker.py line 83-85), no blink was emitted, no snapshot was read.
NoLoop == [pc |-> "none", eye_closed_frames |-> 0, observed |-> <<>>]

NoData == [returned |-> "none"]

\* The GUI thread outside stop(); waited: how the last join ended.
NoStop == [pc |-> "idle", waited |-> "none"]

\* No thread is inside _monitoring_loop.  tick: the iterations begun; host:
\* what psutil finds for a battery; probe: how the last connect of
\* _update_network_status ended; completed: current_metrics as it was at
\* construction and at the end of each iteration.
NoMonitoring ==
    [pc |-> "none", tick |-> 0, host |-> "desktop", probe |-> "none",
     completed |-> {}]

InitThreads ==
    /\ tracking_loop = NoLoop
    /\ emitted_blinks = <<>>
    /\ blink_data = NoData
    /\ gui = NoStop
    /\ loops = <<>>
    /\ monitoring_loop = NoMonitoring
    /\ system_data = NoData

InitExt == InitCallers /\ InitSamplers /\ InitApp /\ InitThreads

\* The store with the given tables and the attributes of a DataManager just
\* constructed over it (line 31-33).
InitStoreAt(time, sessions, blinks) ==
    /\ now = time
    /\ system_metrics = <<>>
    /\ eye_sessions = sessions
    /\ blink_events = blinks
    /\ sync_log = <<>>
    /\ is_syncing = FALSE
    /\ last_sync_time = NoTime
    /\ pending_sync_count = 0
    /\ pc = [c \in SyncCtx |-> "idle"]
    /\ unsynced_count = [c \in SyncCtx |-> 0]
    /\ status = [c \in SyncCtx |-> NoText]
    /\ completed = [c \in SyncCtx |-> "none"]
    /\ logged = [c \in SyncCtx |-> 0]
    /\ batch = [c \in SyncCtx |-> {}]
    /\ rows_at_count = [c \in SyncCtx |-> 0]
    /\ since_mark = Len(sessions) + Len(blinks)
    /\ troubles = 0

InitStore(sessions, blinks) == InitStoreAt(1, sessions, blinks)

\* A DataManager as constructed (line 23-48) over the given tables, in the
\* running application.
InitOver(sessions, blinks) == InitStore(sessions, blinks) /\ InitExt

\* The database file outlives the process (CREATE TABLE IF NOT EXISTS, line
\* 57-112): a DataManager starts over an empty store, or over one that holds
\* a session and a blink event of an earlier run, not yet synced.
Init ==
    \/ InitOver(<<>>, <<>>)
    \/ InitOver(<<[user_id |-> DemoUser, session_start |-> 1,
                   session_end |-> 1, total_blinks |-> 12,
                   blinks_per_minute |-> 12, eye_strain_level |-> "moderate",
                   synced |-> FALSE]>>,
                <<[user_id |-> DemoUser, session_id |-> 1, timestamp |-> 1,
                   synced |-> FALSE]>>)

\* A DataManager over a store created by this run.
InitEmpty == InitOver(<<>>, <<>>)

\* ------------------------------------------------------ store operations
\* save_session_data: one system_metrics row and pending_sync_count += 1.
\* A fault of cursor.execute leaves everything as it was; a fault of
\* conn.commit comes after the increment of pending_sync_count (line 151-153)
\* and the connection's context manager rolls the insert back.
save_session_data ==
    /\ \/ /\ Len(system_metrics) < MaxRows
          /\ system_metrics' = Append(system_metrics, NewMetricRow)
          /\ pending_sync_count' = pending_sync_count + 1
          /\ since_mark' = since_mark + 1
          /\ UNCHANGED troubles
       \/ /\ MayFault /\ Fault
          /\ \E at \in {"execute", "commit"} :
                pending_sync_count' =
                    IF at = "commit" THEN pending_sync_count + 1
                    ELSE pending_sync_count
          /\ UNCHANGED <<system_metrics, since_mark>>
    /\ UNCHANGED <<eye_sessions, blink_events, sync_log, is_syncing,
                   last_sync_time, now, locals>>

\* save_blink_event(user_id, session_id): one blink_events row.
save_blink_event(user_id, session_id) ==
    /\ \/ /\ Len(blink_events) < MaxRows
          /\ blink_events' = Append(blink_events, NewBlinkRow(user_id, session_id))
          /\ since_mark' = since_mark + 1
          /\ UNCHANGED troubles
       \/ /\ MayFault /\ Fault
          /\ UNCHANGED <<blink_events, since_mark>>
    /\ UNCHANGED <<system_metrics, eye_sessions, sync_log, fields, now, locals>>

\* start_eye_session(user_id): one eye_sessions row; returns its id, or None
\* on a fault.
start_eye_session(user_id) ==
    /\ \/ /\ Len(eye_sessions) < MaxRows
          /\ eye_sessions' = Append(eye_sessions, NewSessionRow(user_id))
          /\ since_mark' = since_mark + 1
          /\ UNCHANGED troubles
       \/ /\ MayFault /\ Fault
          /\ UNCHANGED <<eye_sessions, since_mark>>
    /\ UNCHANGED <<system_metrics, blink_events, sync_log, fields, now, locals>>

\* end_eye_session(session_id, total_blinks, blinks_per_minute): the UPDATE
\* changes the row with that id, and no row when there is none.
end_eye_session(session_id, total_blinks, blinks_per_minute) ==
    /\ \/ /\ eye_sessions' =
                [i \in 1..Len(eye_sessions) |->
                    IF i = session_id
                    THEN EndedSessionRow(eye_sessions[i], total_blinks,
                                         blinks_per_minute)
                    ELSE eye_sessions[i]]
          /\ UNCHANGED troubles
       \/ /\ MayFault /\ Fault
          /\ UNCHANGED eye_sessions
    /\ UNCHANGED <<system_metrics, blink_events, sync_log, fields, now,
                   locals, since_mark>>

\* ------------------------------------------------------------- sync_data
\* The positions of a calling context inside sync_data:
\*   idle     not inside sync_data
\*   entered  found is_syncing false (line 284), has not yet set it (line 288)
\*   count    set is_syncing, about to call _get_unsynced_count (line 293)
\*   deliver  about to call _simulate_cloud_sync (line 302)
\*   mark     delivery succeeded, about to mark the records (line 305-307)
\*   logok    about to log the success (line 309-311)
\*   logfail  delivery failed, about to log it (line 315-317)
\*   except   inside the except clause (line 321-325)
\*   finally  about to run the finally clause (line 327-328)
Syncing == {"entered", "count", "deliver", "mark", "logok", "logfail",
            "except", "finally"}

\* A variant of _log_sync_result that replaces the newest row of sync_log
\* when there is one.
LogSyncResult_Replace(c, records_synced, success, error_message) ==
    /\ sync_log' =
          IF sync_log = <<>>
          THEN <<NewLogRow(records_synced, success, error_message)>>
          ELSE [sync_log EXCEPT ![Len(sync_log)] =
                    NewLogRow(records_synced, success, error_message)]
    /\ logged' = [logged EXCEPT ![c] = @ + 1]
    /\ UNCHANGED troubles

\* _log_sync_result as called by context c: one sync_log row, or none when
\* the insert faults.
LogSyncResult(c, records_synced, success, error_message) ==
    \/ /\ sync_log' = Append(sync_log,
                             NewLogRow(records_synced, success, error_message))
       /\ logged' = [logged EXCEPT ![c] = @ + 1]
       /\ UNCHANGED troubles
    \/ /\ MayFault /\ Fault
       /\ UNCHANGED <<sync_log, logged>>

\* _mark_records_as_synced: the three UPDATEs commit together, or a fault
\* rolls all of them back.
MarkRecordsAsSynced ==
    \/ /\ system_metrics' = MarkTable(system_metrics)
       /\ eye_sessions' = MarkTable(eye_sessions)
       /\ blink_events' = MarkTable(blink_events)
       /\ since_mark' = 0
       /\ UNCHANGED troubles
    \/ /\ MayFault /\ Fault
       /\ UNCHANGED <<system_metrics, eye_sessions, blink_events, since_mark>>

\* Line 284-285: the guard.  A trigger that finds is_syncing true returns at
\* once; one that finds it false goes on to line 287.
SyncGuard(c) ==
    /\ pc[c] = "idle"
    /\ pc' = [pc EXCEPT ![c] = IF is_syncing THEN "idle" ELSE "entered"]
    /\ UNCHANGED <<store, fields, now, unsynced_count, status, completed,
                   logged, batch, rows_at_count, since_mark, troubles>>

\* Line 287-289: set the flag and emit "Syncing...".
SyncEnter(c) ==
    /\ pc[c] = "entered"
    /\ is_syncing' = TRUE
    /\ status' = [status EXCEPT ![c] = "Syncing..."]
    /\ pc' = [pc EXCEPT ![c] = "count"]
    /\ UNCHANGED <<store, last_sync_time, pending_sync_count, now,
                   unsynced_count, completed, logged, batch, rows_at_count,
                   since_mark, troubles>>

\* A variant of line 293-299 that logs the attempt that found nothing to sync.
SyncCount_Logged(c) ==
    /\ pc[c] = "count"
    /\ unsynced_count' = [unsynced_count EXCEPT ![c] = UnsyncedTotal]
    /\ batch' = [batch EXCEPT ![c] = UnsyncedRows]
    /\ rows_at_count' = [rows_at_count EXCEPT ![c] = TotalRows]
    /\ IF UnsyncedTotal = 0
       THEN /\ sync_log' = Append(sync_log, NewLogRow(0, TRUE, NoText))
            /\ status' = [status EXCEPT ![c] = "Up to date"]
            /\ completed' = [completed EXCEPT ![c] = "true"]
            /\ pc' = [pc EXCEPT ![c] = "finally"]
       ELSE /\ pc' = [pc EXCEPT ![c] = "deliver"]
            /\ UNCHANGED <<sync_log, status, completed>>
    /\ UNCHANGED <<system_metrics, eye_sessions, blink_events, fields, now,
                   logged, since_mark, troubles>>

\* Line 293-299: count the unsynced rows (0 when the query faults, line
\* 348-350); with nothing to sync emit "Up to date" and return.
SyncCount(c) ==
    /\ pc[c] = "count"
    /\ \E ok \in {TRUE} \cup (IF MayFault THEN {FALSE} ELSE {}) :
          /\ unsynced_count' =
                [unsynced_count EXCEPT ![c] = IF ok THEN UnsyncedTotal ELSE 0]
          /\ batch' = [batch EXCEPT ![c] = IF ok THEN UnsyncedRows ELSE {}]
          /\ rows_at_count' = [rows_at_count EXCEPT ![c] = TotalRows]
          /\ troubles' = IF ok THEN troubles ELSE troubles + 1
    /\ IF unsynced_count'[c] = 0
       THEN /\ status' = [status EXCEPT ![c] = "Up to date"]
            /\ completed' = [completed EXCEPT ![c] = "true"]
            /\ pc' = [pc EXCEPT ![c] = "finally"]
       ELSE /\ pc' = [pc EXCEPT ![c] = "deliver"]
            /\ UNCHANGED <<status, completed>>
    /\ UNCHANGED <<store, fields, now, logged, since_mark>>

\* Line 302: the delivery.  _simulate_cloud_sync returns True or False; the
\* transport it stands in for ("in production, this would make API calls")
\* may also raise, which the except clause at line 321 is there for.
SyncDeliver(c) ==
    /\ pc[c] = "deliver"
    /\ \/ /\ pc' = [pc EXCEPT ![c] = "mark"]
          /\ UNCHANGED troubles
       \/ /\ MayFault /\ Fault
          /\ \E next \in {"logfail", "except"} : pc' = [pc EXCEPT ![c] = next]
    /\ UNCHANGED <<store, fields, now, unsynced_count, status, completed,
                   logged, batch, rows_at_count, since_mark>>

\* Line 305-307: mark, then set last_sync_time and pending_sync_count.
SyncMark(c) ==
    /\ pc[c] = "mark"
    /\ MarkRecordsAsSynced
    /\ last_sync_time' = now
    /\ pending_sync_count' = 0
    /\ pc' = [pc EXCEPT ![c] = "logok"]
    /\ UNCHANGED <<sync_log, is_syncing, now, unsynced_count, status,
                   completed, logged, batch, rows_at_count>>

\* Line 309-311: log the success and emit "Sync complete".
SyncLogOk(c) ==
    /\ pc[c] = "logok"
    /\ LogSyncResult(c, unsynced_count[c], TRUE, NoText)
    /\ status' = [status EXCEPT ![c] = "Sync complete"]
    /\ completed' = [completed EXCEPT ![c] = "true"]
    /\ pc' = [pc EXCEPT ![c] = "finally"]
    /\ UNCHANGED <<system_metrics, eye_sessions, blink_events, fields, now,
                   unsynced_count, batch, rows_at_count, since_mark>>

\* A variant of line 315-317 that resets pending_sync_count as the success
\* branch does.
SyncLogFail_Reset(c) ==
    /\ pc[c] = "logfail"
    /\ LogSyncResult(c, unsynced_count[c], FALSE, "Simulated failure")
    /\ pending_sync_count' = 0
    /\ status' = [status EXCEPT ![c] = "Sync failed"]
    /\ completed' = [completed EXCEPT ![c] = "false"]
    /\ pc' = [pc EXCEPT ![c] = "finally"]
    /\ UNCHANGED <<system_metrics, eye_sessions, blink_events, is_syncing,
                   last_sync_time, now, unsynced_count, batch, rows_at_count,
                   since_mark>>

\* Line 315-317: log the failure and emit "Sync failed".
SyncLogFail(c) ==
    /\ pc[c] = "logfail"
    /\ LogSyncResult(c, unsynced_count[c], FALSE, "Simulated failure")
    /\ status' = [status EXCEPT ![c] = "Sync failed"]
    /\ completed' = [completed EXCEPT ![c] = "false"]
    /\ pc' = [pc EXCEPT ![c] = "finally"]
    /\ UNCHANGED <<system_metrics, eye_sessions, blink_events, fields, now,
                   unsynced_count, batch, rows_at_count, since_mark>>

\* A variant of the except clause that returns from inside it, past the
\* finally clause.
SyncExcept_Return(c) ==
    /\ pc[c] = "except"
    /\ LogSyncResult(c, 0, FALSE, "delivery raised")
    /\ status' = [status EXCEPT ![c] = "Sync error"]
    /\ completed' = [completed EXCEPT ![c] = "false"]
    /\ pc' = [pc EXCEPT ![c] = "idle"]
    /\ UNCHANGED <<system_metrics, eye_sessions, blink_events, fields, now,
                   unsynced_count, batch, rows_at_count, since_mark>>

\* Line 321-325: the except clause logs 0 records and emits "Sync error".
SyncExcept(c) ==
    /\ pc[c] = "except"
    /\ LogSyncResult(c, 0, FALSE, "delivery raised")
    /\ status' = [status EXCEPT ![c] = "Sync error"]
    /\ completed' = [completed EXCEPT ![c] = "false"]
    /\ pc' = [pc EXCEPT ![c] = "finally"]
    /\ UNCHANGED <<system_metrics, eye_sessions, blink_events, fields, now,
                   unsynced_count, batch, rows_at_count, since_mark>>

\* A variant of the finally clause that leaves is_syncing set.
SyncFinally_Stale(c) ==
    /\ pc[c] = "finally"
    /\ pc' = [pc EXCEPT ![c] = "idle"]
    /\ unsynced_count' = [unsynced_count EXCEPT ![c] = 0]
    /\ status' = [status EXCEPT ![c] = NoText]
    /\ completed' = [completed EXCEPT ![c] = "none"]
    /\ logged' = [logged EXCEPT ![c] = 0]
    /\ batch' = [batch EXCEPT ![c] = {}]
    /\ rows_at_count' = [rows_at_count EXCEPT ![c] = 0]
    /\ UNCHANGED <<store, fields, now, since_mark, troubles>>

\* Line 327-328: the finally clause clears the flag; sync_data returns and
\* what was local to the call is gone.
SyncFinally(c) ==
    /\ pc[c] = "finally"
    /\ is_syncing' = FALSE
    /\ pc' = [pc EXCEPT ![c] = "idle"]
    /\ unsynced_count' = [unsynced_count EXCEPT ![c] = 0]
    /\ status' = [status EXCEPT ![c] = NoText]
    /\ completed' = [completed EXCEPT ![c] = "none"]
    /\ logged' = [logged EXCEPT ![c] = 0]
    /\ batch' = [batch EXCEPT ![c] = {}]
    /\ rows_at_count' = [rows_at_count EXCEPT ![c] = 0]
    /\ UNCHANGED <<store, last_sync_time, pending_sync_count, now,
                   since_mark, troubles>>

\* ------------------------------------------------ direct store calls
\* _mark_records_as_synced called on its own, outside sync_data.
mark_records_as_synced ==
    /\ MarkRecordsAsSynced
    /\ UNCHANGED <<sync_log, fields, now, locals>>

\* Time passes: the next datetime.now() reads a later time.
Tick ==
    /\ now < MaxClock
    /\ now' = now + 1
    /\ UNCHANGED <<store, fields, locals, since_mark, troubles>>

\* ----------------------------------------------------- the specifications
\* A trigger of sync_data: the QTimer's timeout or a direct call.  The model
\* stops triggering it once the log holds MaxLog rows.
Trigger(c) ==
    /\ Len(sync_log) < MaxLog
    /\ SyncGuard(c)

\* The DataManager as the application drives it: the save timer stores a
\* metrics row (dashboard_widget.py line 540) while sync_data runs in the
\* calling contexts.
Next ==
    \/ save_session_data /\ UNCHANGED ext
    \/ \E c \in SyncCtx : Trigger(c) /\ UNCHANGED ext
    \/ \E c \in SyncCtx : SyncEnter(c) /\ UNCHANGED ext
    \/ \E c \in SyncCtx : SyncCount(c) /\ UNCHANGED ext
    \/ \E c \in SyncCtx : SyncDeliver(c) /\ UNCHANGED ext
    \/ \E c \in SyncCtx : SyncMark(c) /\ UNCHANGED ext
    \/ \E c \in SyncCtx : SyncLogOk(c) /\ UNCHANGED ext
    \/ \E c \in SyncCtx : SyncLogFail(c) /\ UNCHANGED ext
    \/ \E c \in SyncCtx : SyncExcept(c) /\ UNCHANGED ext
    \/ \E c \in SyncCtx : SyncFinally(c) /\ UNCHANGED ext

Spec == Init /\ [][Next]_vars

\* The store operations of the DataManager called one after another in any
\* order, each under db_lock.
NextStore ==
    \/ Tick /\ UNCHANGED ext
    \/ TotalRows < MaxStoreRows /\ save_session_data /\ UNCHANGED ext
    \/ /\ TotalRows < MaxStoreRows
       /\ \E u \in Users : \E sid \in 0..Len(eye_sessions) : save_blink_event(u, sid)
       /\ UNCHANGED ext
    \/ /\ TotalRows < MaxStoreRows
       /\ \E u \in Users : start_eye_session(u)
       /\ UNCHANGED ext
    \/ /\ \E sid \in 1..(Len(eye_sessions) + 1) : \E in \in SummaryInputs :
             end_eye_session(sid, in[1], in[2])
       /\ UNCHANGED ext
    \/ mark_records_as_synced /\ UNCHANGED ext

SpecStore == InitEmpty /\ [][NextStore]_vars

\* The DataManager with the one caller of sync_data the application has, the
\* auto-sync QTimer (line 36-37, started at line 46), while save_session_data
\* stores metrics rows in the same database file.
NextTimer ==
    \/ save_session_data /\ UNCHANGED ext
    \/ SyncGuard("timer") /\ UNCHANGED ext
    \/ SyncEnter("timer") /\ UNCHANGED ext
    \/ SyncCount("timer") /\ UNCHANGED ext
    \/ SyncDeliver("timer") /\ UNCHANGED ext
    \/ SyncMark("timer") /\ UNCHANGED ext
    \/ SyncLogOk("timer") /\ UNCHANGED ext
    \/ SyncLogFail("timer") /\ UNCHANGED ext
    \/ SyncExcept("timer") /\ UNCHANGED ext
    \/ SyncFinally("timer") /\ UNCHANGED ext

\* The delivery of the timer's attempt returns True.
DeliverSucceeds == SyncDeliver("timer") /\ pc'["timer"] = "mark"

\* The timer keeps firing (setInterval without setSingleShot: line 46), a
\* call of sync_data that has started runs on to its return, and a delivery
\* attempted again and again succeeds again and again (random.random() > 0.1).
Fairness ==
    /\ WF_data_manager(SyncGuard("timer"))
    /\ WF_data_manager(SyncEnter("timer"))
    /\ WF_data_manager(SyncCount("timer"))
    /\ WF_data_manager(SyncDeliver("timer"))
    /\ SF_data_manager(DeliverSucceeds)
    /\ WF_data_manager(SyncMark("timer"))
    /\ WF_data_manager(SyncLogOk("timer"))
    /\ WF_data_manager(SyncLogFail("timer"))
    /\ WF_data_manager(SyncExcept("timer"))
    /\ WF_data_manager(SyncFinally("timer"))

FairSpec == Init /\ [][NextTimer]_vars /\ Fairness

\* ------------------------------------------- store operations and db_lock
\* The store operations that write, and those that only read.  Each runs
\* inside "with self.db_lock", the lock of the DataManager it is called on.
WriteOps == {"save_session_data", "save_blink_event", "start_eye_session",
             "end_eye_session", "_mark_records_as_synced", "_log_sync_result"}

ReadOps == {"get_session_stats", "_get_unsynced_count", "get_database_stats"}

StoreOps == WriteOps \cup ReadOps

\* Calls of the given store operations that are under way.
InFlight(ops) == Cardinality({t \in Threads : call[t].op \in ops})

\* The store operations that insert a row into a data table.
InsertOps == {"save_session_data", "save_blink_event", "start_eye_session"}

\* The model starts an insert only while the tables, counting the inserts
\* under way, have room for the row.
HasRoom(op) ==
    CASE op \in InsertOps -> TotalRows + InFlight(InsertOps) < MaxRows
      [] op = "_log_sync_result" ->
            Len(sync_log) + InFlight({op}) < MaxLog - 1
      [] OTHER -> TRUE

\* A variant of the except clauses that lets the fault out to the caller.
Sentinel_Raise(op) == "raised"

\* What the except clause of a store operation returns: None (line 203, 280,
\* 444), 0 (line 350), or nothing, as the operation does without a fault.
Sentinel(op) ==
    CASE op \in {"start_eye_session", "get_session_stats",
                 "get_database_stats"} -> "None"
      [] op = "_get_unsynced_count" -> "0"
      [] OTHER -> "nothing"

\* What a store operation returns when no sqlite3 call raises.
Result(op) ==
    CASE op = "start_eye_session" -> "session_id"
      [] op \in {"get_session_stats", "get_database_stats"} -> "dict"
      [] op = "_get_unsynced_count" -> "count"
      [] OTHER -> "nothing"

\* _log_sync_result called on its own, outside sync_data.
log_sync_result(records_synced, success, error_message) ==
    /\ LogSyncResult("manual", records_synced, success, error_message)
    /\ UNCHANGED <<system_metrics, eye_sessions, blink_events, fields, now,
                   pc, unsynced_count, status, completed, batch,
                   rows_at_count, since_mark>>

\* The SELECTs of a read operation: they change nothing, or one raises.
ReadStore ==
    /\ \/ UNCHANGED troubles
       \/ MayFault /\ Fault
    /\ UNCHANGED <<store, fields, now, locals, since_mark>>

\* "with self.db_lock:" entered by thread t for operation op of manager m.
\* save_session_data is called on the dashboard's DataManager
\* (dashboard_widget.py line 540), whose pending_sync_count is followed here.
LockAcquire(t, m, op) ==
    /\ call[t] = NoCall
    /\ ~db_lock[m]
    /\ HasRoom(op)
    /\ op = "save_session_data" => m = "dashboard"
    /\ db_lock' = [db_lock EXCEPT ![m] = TRUE]
    /\ call' = [call EXCEPT ![t] = [op |-> op, manager |-> m]]
    /\ returned' = [returned EXCEPT ![t] = "none"]
    /\ UNCHANGED data_manager

\* The body of the operation thread t is inside: its SQL statements.
StoreBody(t) ==
    CASE call[t].op = "save_session_data" -> save_session_data
      [] call[t].op = "save_blink_event" ->
            \E u \in Users : \E sid \in 0..Len(eye_sessions) :
               save_blink_event(u, sid)
      [] call[t].op = "start_eye_session" ->
            \E u \in Users : start_eye_session(u)
      [] call[t].op = "end_eye_session" ->
            \E sid \in 1..(Len(eye_sessions) + 1) : \E in \in SummaryInputs :
               end_eye_session(sid, in[1], in[2])
      [] call[t].op = "_mark_records_as_synced" -> mark_records_as_synced
      [] call[t].op = "_log_sync_result" ->
            log_sync_result(1, FALSE, "Simulated failure")
      [] OTHER -> ReadStore

\* The rest of a store operation: its body, the exit of the with block that
\* releases the lock (also when the body raised), and the return.
StoreReturn(t) ==
    /\ call[t] # NoCall
    /\ StoreBody(t)
    /\ db_lock' = [db_lock EXCEPT ![call[t].manager] = FALSE]
    /\ call' = [call EXCEPT ![t] = NoCall]
    /\ returned' = [returned EXCEPT ![t] =
                       IF troubles' # troubles THEN Sentinel(call[t].op)
                       ELSE Result(call[t].op)]

\* Threads calling the store operations of the two DataManagers.
NextLock ==
    \/ /\ \E t \in Threads : \E m \in Managers : \E op \in WriteOps :
             LockAcquire(t, m, op)
       /\ UNCHANGED <<samplers, app, threads>>
    \/ /\ \E t \in Threads : \E m \in Managers : \E op \in ReadOps :
             LockAcquire(t, m, op)
       /\ UNCHANGED <<samplers, app, threads>>
    \/ /\ \E t \in Threads : StoreReturn(t)
       /\ UNCHANGED <<samplers, app, threads>>

SpecLock == InitEmpty /\ [][NextLock]_vars

\* ------------------------------------------------------------ the samplers
\* The blinks kept for the rate: those of the last 5 minutes (eye_tracker.py
\* line 231), in ticks of the clock.
BlinkWindow == 5

\* A variant of start() that arms the simulation timer in both modes.
StartedEyeTracker_BothSources(et, cam_ok, casc_ok, thread_ok) ==
    LET live == cam_ok /\ casc_ok
        reset == [et EXCEPT !.camera = IF cam_ok THEN "opened" ELSE "unopened",
                            !.camera_available = live,
                            !.simulation_mode = ~live,
                            !.total_blinks = 0,
                            !.session_start_time = now,
                            !.blink_history = <<>>,
                            !.should_stop = FALSE,
                            !.is_running = TRUE,
                            !.simulation_timer = TRUE]
    IN  IF et.is_running
        THEN [obj |-> et, raised |-> FALSE, emitted |-> FALSE]
        ELSE IF ~live
        THEN [obj |-> reset, raised |-> FALSE, emitted |-> TRUE]
        ELSE IF thread_ok
        THEN [obj |-> [reset EXCEPT
                          !.tracking_thread = "alive",
                          !.old_loops = IF et.tracking_thread = "alive"
                                        THEN @ + 1 ELSE @],
              raised |-> FALSE, emitted |-> TRUE]
        ELSE [obj |-> [reset EXCEPT
                          !.is_running = FALSE,
                          !.tracking_thread = "ended",
                          !.old_loops = IF et.tracking_thread = "alive"
                                        THEN @ + 1 ELSE @],
              raised |-> TRUE, emitted |-> FALSE]

\* A variant of start() without the check of is_running (line 52-53).
StartedEyeTracker_NoGuard(et, cam_ok, casc_ok, thread_ok) ==
    LET live == cam_ok /\ casc_ok
        reset == [et EXCEPT !.camera = IF cam_ok THEN "opened" ELSE "unopened",
                            !.camera_available = live,
                            !.simulation_mode = ~live,
                            !.total_blinks = 0,
                            !.session_start_time = now,
                            !.blink_history = <<>>,
                            !.should_stop = FALSE,
                            !.is_running = TRUE]
    IN  IF ~live
        THEN [obj |-> [reset EXCEPT !.simulation_timer = TRUE],
              raised |-> FALSE, emitted |-> TRUE]
        ELSE IF thread_ok
        THEN [obj |-> [reset EXCEPT
                          !.tracking_thread = "alive",
                          !.old_loops = IF et.tracking_thread = "alive"
                                        THEN @ + 1 ELSE @],
              raised |-> FALSE, emitted |-> TRUE]
        ELSE [obj |-> [reset EXCEPT
                          !.is_running = FALSE,
                          !.tracking_thread = "ended",
                          !.old_loops = IF et.tracking_thread = "alive"
                                        THEN @ + 1 ELSE @],
              raised |-> TRUE, emitted |-> FALSE]

\* EyeTracker.start() (eye_tracker.py line 50-93) on the object et.  cam_ok:
\* the VideoCapture opened; casc_ok: both cascade classifiers loaded;
\* thread_ok: Thread.start() did not raise; when it raises, tracking_thread
\* is the new Thread, which is not alive (line 83-85).  Gives the object after the call,
\* whether the call raised, and whether tracking_started was emitted.
StartedEyeTracker(et, cam_ok, casc_ok, thread_ok) ==
    LET live == cam_ok /\ casc_ok
        reset == [et EXCEPT !.camera = IF cam_ok THEN "opened" ELSE "unopened",
                            !.camera_available = live,
                            !.simulation_mode = ~live,
                            !.total_blinks = 0,
                            !.session_start_time = now,
                            !.blink_history = <<>>,
                            !.should_stop = FALSE,
                            !.is_running = TRUE]
    IN  IF et.is_running
        THEN [obj |-> et, raised |-> FALSE, emitted |-> FALSE]
        ELSE IF ~live
        THEN [obj |-> [reset EXCEPT !.simulation_timer = TRUE],
              raised |-> FALSE, emitted |-> TRUE]
        ELSE IF thread_ok
        THEN [obj |-> [reset EXCEPT
                          !.tracking_thread = "alive",
                          !.old_loops = IF et.tracking_thread = "alive"
                                        THEN @ + 1 ELSE @],
              raised |-> FALSE, emitted |-> TRUE]
        ELSE [obj |-> [reset EXCEPT
                          !.is_running = FALSE,
                          !.tracking_thread = "ended",
                          !.old_loops = IF et.tracking_thread = "alive"
                                        THEN @ + 1 ELSE @],
              raised |-> TRUE, emitted |-> FALSE]

\* A variant of stop() that leaves the simulation timer as it is.
StoppedEyeTracker_KeepsTimer(et, joined) ==
    IF ~et.is_running
    THEN [obj |-> et, raised |-> FALSE, emitted |-> FALSE]
    ELSE [obj |-> [et EXCEPT
                      !.should_stop = TRUE,
                      !.is_running = FALSE,
                      !.camera = "None",
                      !.tracking_thread =
                          IF @ = "alive" /\ joined THEN "ended" ELSE @],
          raised |-> FALSE, emitted |-> TRUE]

\* EyeTracker.stop() (line 95-122) on the object et.  joined: the tracking
\* thread ended within the 2 seconds of join(timeout=2.0).
StoppedEyeTracker(et, joined) ==
    IF ~et.is_running
    THEN [obj |-> et, raised |-> FALSE, emitted |-> FALSE]
    ELSE [obj |-> [et EXCEPT
                      !.should_stop = TRUE,
                      !.is_running = FALSE,
                      !.simulation_timer = IF et.simulation_mode THEN FALSE ELSE @,
                      !.camera = "None",
                      !.tracking_thread =
                          IF @ = "alive" /\ joined THEN "ended" ELSE @],
          raised |-> FALSE, emitted |-> TRUE]

\* A variant of _record_blink that keeps every timestamp.
RecordedBlink_KeepsAll(et) ==
    [et EXCEPT !.total_blinks = @ + 1,
               !.last_blink_time = now,
               !.blink_history = Append(@, now)]

\* _record_blink (line 222-235) on the object et.
RecordedBlink(et) ==
    [et EXCEPT !.total_blinks = @ + 1,
               !.last_blink_time = now,
               !.blink_history =
                   SelectSeq(Append(@, now), LAMBDA t : t > now - BlinkWindow)]

\* SystemMonitor.start() (system_monitor.py line 51-73) on the object sm.
StartedSystemMonitor(sm, thread_ok) ==
    IF sm.is_running
    THEN [obj |-> sm, raised |-> FALSE, emitted |-> FALSE]
    ELSE IF thread_ok
    THEN [obj |-> [sm EXCEPT !.should_stop = FALSE,
                             !.is_running = TRUE,
                             !.monitoring_thread = "alive",
                             !.old_loops = IF sm.monitoring_thread = "alive"
                                           THEN @ + 1 ELSE @],
          raised |-> FALSE, emitted |-> TRUE]
    ELSE [obj |-> [sm EXCEPT !.should_stop = FALSE,
                             !.is_running = FALSE,
                             !.monitoring_thread = "ended",
                             !.old_loops = IF sm.monitoring_thread = "alive"
                                           THEN @ + 1 ELSE @],
          raised |-> TRUE, emitted |-> FALSE]

\* SystemMonitor.stop() (line 75-94) on the object sm.
StoppedSystemMonitor(sm, joined) ==
    IF ~sm.is_running
    THEN [obj |-> sm, raised |-> FALSE, emitted |-> FALSE]
    ELSE [obj |-> [sm EXCEPT
                      !.should_stop = TRUE,
                      !.is_running = FALSE,
                      !.monitoring_thread =
                          IF @ = "alive" /\ joined THEN "ended" ELSE @],
          raised |-> FALSE, emitted |-> TRUE]

\* The signal g emitted when the flag says so.
Emit(g, emitted) ==
    signals' = [signals EXCEPT ![g] = IF emitted THEN @ + 1 ELSE @]

\* A call of eye_tracker.start(), as start_monitoring makes it inside its
\* try block (dashboard_widget.py line 380-382, 419-421).
EyeTracker_start ==
    /\ process = "running"
    /\ \E cam_ok, casc_ok, thread_ok \in BOOLEAN :
          LET r == StartedEyeTracker(eye_tracker, cam_ok, casc_ok, thread_ok)
          IN  /\ eye_tracker' = r.obj
              /\ Emit("tracking_started", r.emitted)
              /\ outcome' = [op |-> "EyeTracker.start", raised |-> r.raised,
                              emitted |-> r.emitted]
    /\ UNCHANGED <<system_monitor, app, callers, data_manager>>

\* A call of eye_tracker.stop() (dashboard_widget.py line 436).
EyeTracker_stop ==
    /\ process = "running"
    /\ \E joined \in BOOLEAN :
          LET r == StoppedEyeTracker(eye_tracker, joined)
          IN  /\ eye_tracker' = r.obj
              /\ Emit("tracking_stopped", r.emitted)
              /\ outcome' = [op |-> "EyeTracker.stop", raised |-> r.raised,
                              emitted |-> r.emitted]
    /\ UNCHANGED <<system_monitor, app, callers, data_manager>>

\* _simulate_blink (line 214-220): the simulation timer expires, a blink is
\* recorded and the timer is started again.
simulate_blink ==
    /\ eye_tracker.simulation_timer
    /\ signals["blink_detected"] < MaxBlinks
    /\ eye_tracker' = [RecordedBlink(eye_tracker) EXCEPT !.simulation_timer = TRUE]
    /\ Emit("blink_detected", TRUE)
    /\ UNCHANGED <<system_monitor, outcome, app, callers, data_manager>>

\* A tracking loop is running.
LoopsAlive(obj, thread) == obj[thread] = "alive" \/ obj.old_loops > 0

\* _tracking_loop (line 164-212): an iteration that finds the loop condition
\* true (line 173) and records a blink (line 201-203).
TrackingLoopBlink ==
    /\ LoopsAlive(eye_tracker, "tracking_thread")
    /\ ~eye_tracker.should_stop
    /\ eye_tracker.camera = "opened"
    /\ signals["blink_detected"] < MaxBlinks
    /\ eye_tracker' = RecordedBlink(eye_tracker)
    /\ Emit("blink_detected", TRUE)
    /\ UNCHANGED <<system_monitor, outcome, app, callers, data_manager>>

\* _tracking_loop ends: the loop condition is false, or camera.read() gave
\* no frame (line 176-177).  The Thread that ends is the newest or an older
\* one.
TrackingLoopExit ==
    /\ \/ /\ eye_tracker.tracking_thread = "alive"
          /\ eye_tracker' = [eye_tracker EXCEPT !.tracking_thread = "ended"]
       \/ /\ eye_tracker.old_loops > 0
          /\ eye_tracker' = [eye_tracker EXCEPT !.old_loops = @ - 1]
    /\ UNCHANGED <<system_monitor, signals, outcome, app, callers, data_manager>>

\* A call of system_monitor.start() (dashboard_widget.py line 385).
SystemMonitor_start ==
    /\ process = "running"
    /\ \E thread_ok \in BOOLEAN :
          LET r == StartedSystemMonitor(system_monitor, thread_ok)
          IN  /\ system_monitor' = r.obj
              /\ Emit("monitoring_started", r.emitted)
              /\ outcome' = [op |-> "SystemMonitor.start", raised |-> r.raised,
                              emitted |-> r.emitted]
    /\ UNCHANGED <<eye_tracker, app, callers, data_manager>>

\* A call of system_monitor.stop() (dashboard_widget.py line 437).
SystemMonitor_stop ==
    /\ process = "running"
    /\ \E joined \in BOOLEAN :
          LET r == StoppedSystemMonitor(system_monitor, joined)
          IN  /\ system_monitor' = r.obj
              /\ Emit("monitoring_stopped", r.emitted)
              /\ outcome' = [op |-> "SystemMonitor.stop", raised |-> r.raised,
                              emitted |-> r.emitted]
    /\ UNCHANGED <<eye_tracker, app, callers, data_manager>>

\* _monitoring_loop (line 96-119) ends: it found should_stop set (line 101).
MonitoringLoopExit ==
    /\ system_monitor.should_stop
    /\ \/ /\ system_monitor.monitoring_thread = "alive"
          /\ system_monitor' = [system_monitor EXCEPT !.monitoring_thread = "ended"]
       \/ /\ system_monitor.old_loops > 0
          /\ system_monitor' = [system_monitor EXCEPT !.old_loops = @ - 1]
    /\ UNCHANGED <<eye_tracker, signals, outcome, app, callers, data_manager>>

\* ------------------------------------------- the tracking loop, by frame
\* Consecutive frames without both eyes that count as a blink (eye_tracker.py
\* line 170).
blink_threshold == 5

\* eye_closed_frames after a frame (line 198-204).
FramesAfter(eye_closed_frames, eyes_detected) ==
    IF ~eyes_detected THEN eye_closed_frames + 1 ELSE 0

\* A variant of the test that needs more than blink_threshold frames.
IsBlink_Strict(eye_closed_frames, eyes_detected) ==
    eyes_detected /\ eye_closed_frames > blink_threshold

\* The frame makes _tracking_loop call _record_blink (line 201-203).
IsBlink(eye_closed_frames, eyes_detected) ==
    eyes_detected /\ eye_closed_frames >= blink_threshold

\* The loop condition of _tracking_loop (line 173).
LoopCondition ==
    ~eye_tracker.should_stop /\ eye_tracker.camera = "opened"

\* One iteration of _tracking_loop (line 173-207) that got a frame:
\* eyes_detected is what the two cascades made of it (line 179-195).
TrackingLoopFrame ==
    /\ tracking_loop.pc = "while"
    /\ LoopCondition
    /\ Len(tracking_loop.observed) < MaxFrames
    /\ \E eyes_detected \in BOOLEAN :
          /\ tracking_loop' =
                [tracking_loop EXCEPT
                    !.eye_closed_frames = FramesAfter(@, eyes_detected),
                    !.observed = Append(@, eyes_detected)]
          /\ IF IsBlink(tracking_loop.eye_closed_frames, eyes_detected)
             THEN /\ eye_tracker' = RecordedBlink(eye_tracker)
                  /\ Emit("blink_detected", TRUE)
                  /\ emitted_blinks' = Append(emitted_blinks, now)
             ELSE UNCHANGED <<eye_tracker, signals, emitted_blinks>>
    /\ UNCHANGED <<gui, loops, monitoring_loop, system_data,
                   system_monitor, outcome, blink_data, app, callers,
                   data_manager>>

\* camera.read() gives no frame and the loop ends (line 174-177).
TrackingLoopBreak ==
    /\ tracking_loop.pc = "while"
    /\ LoopCondition
    /\ tracking_loop' = [tracking_loop EXCEPT !.pc = "ended"]
    /\ eye_tracker' = [eye_tracker EXCEPT !.tracking_thread = "ended"]
    /\ UNCHANGED <<gui, loops, monitoring_loop, system_data,
                   system_monitor, signals, outcome, emitted_blinks,
                   blink_data, app, callers, data_manager>>

\* The EyeTracker after a start() that found camera and cascades, its
\* thread at the top of _tracking_loop.
InitLive ==
    /\ InitStore(<<>>, <<>>)
    /\ InitCallers
    /\ InitApp
    /\ eye_tracker = StartedEyeTracker(InitEyeTracker, TRUE, TRUE, TRUE).obj
    /\ system_monitor = InitSystemMonitor
    /\ signals = [g \in SamplerSignals |->
                     IF g = "tracking_started" THEN 1 ELSE 0]
    /\ outcome = [op |-> "EyeTracker.start", raised |-> FALSE,
                  emitted |-> TRUE]
    /\ tracking_loop = [NoLoop EXCEPT !.pc = "while"]
    /\ emitted_blinks = <<>>
    /\ blink_data = NoData
    /\ gui = NoStop
    /\ loops = <<>>
    /\ monitoring_loop = NoMonitoring
    /\ system_data = NoData

NextDetect ==
    \/ TrackingLoopFrame
    \/ TrackingLoopBreak

\* One tracking loop over the frames of its camera.
SpecDetect == InitLive /\ [][NextDetect]_vars

\* ------------------------------------------------- the blink aggregation
\* The larger of two numbers (max, line 252).
Max(a, b) == IF a >= b THEN a ELSE b

\* A variant of get_current_data that divides by the elapsed minutes as
\* they are.
CurrentData_NoFloor(et) ==
    [returned |-> "data",
     total_blinks |-> et.total_blinks,
     blinks_per_minute |->
         IF et.session_start_time # NoTime
         THEN [num |-> et.total_blinks, den |-> now - et.session_start_time]
         ELSE [num |-> 0, den |-> 1],
     last_blink |-> et.last_blink_time,
     is_tracking |-> et.is_running]

\* get_current_data (line 237-263) on the object et, the clock counting
\* minutes: blinks_per_minute is the quotient num / den of line 252-253, or 0
\* without a session (line 255).
CurrentData(et) ==
    [returned |-> "data",
     total_blinks |-> et.total_blinks,
     blinks_per_minute |->
         IF et.session_start_time # NoTime
         THEN [num |-> et.total_blinks,
               den |-> Max(1, now - et.session_start_time)]
         ELSE [num |-> 0, den |-> 1],
     last_blink |-> et.last_blink_time,
     is_tracking |-> et.is_running]

\* A call of eye_tracker.get_current_data() (dashboard_widget.py line 479).
get_current_data ==
    /\ blink_data' = CurrentData(eye_tracker)
    /\ UNCHANGED <<gui, loops, monitoring_loop, system_data,
                   tracking_loop, emitted_blinks, samplers, app, callers,
                   data_manager>>

\* A call of eye_tracker.get_blink_history() (line 269-271): a copy of the
\* list.
get_blink_history ==
    /\ blink_data' = [returned |-> "history",
                      history |-> eye_tracker.blink_history]
    /\ UNCHANGED <<gui, loops, monitoring_loop, system_data,
                   tracking_loop, emitted_blinks, samplers, app, callers,
                   data_manager>>

\* A minute passes.
Minute ==
    /\ now < MaxMinutes
    /\ now' = now + 1
    /\ UNCHANGED <<store, fields, locals, since_mark, troubles, ext>>

\* start(): a call that is not a no-op begins a new count of blinks.
StartSession ==
    /\ signals["tracking_started"] < MaxStarts
    /\ EyeTracker_start
    /\ emitted_blinks' = IF eye_tracker.is_running THEN emitted_blinks ELSE <<>>
    /\ UNCHANGED <<gui, loops, monitoring_loop, system_data,
                   tracking_loop, blink_data>>

\* A blink of the session: the simulation timer expires (line 214-220), or
\* the tracking loop finds one (line 201-203).
SessionBlink ==
    /\ Len(emitted_blinks) < MaxSessionBlinks
    /\ \/ /\ eye_tracker.simulation_timer
          /\ eye_tracker' = [RecordedBlink(eye_tracker)
                                EXCEPT !.simulation_timer = TRUE]
       \/ /\ eye_tracker.tracking_thread = "alive"
          /\ LoopCondition
          /\ eye_tracker' = RecordedBlink(eye_tracker)
    /\ Emit("blink_detected", TRUE)
    /\ emitted_blinks' = Append(emitted_blinks, now)
    /\ UNCHANGED <<gui, loops, monitoring_loop, system_data,
                   system_monitor, outcome, tracking_loop, blink_data, app,
                   callers, data_manager>>

NextBlinks ==
    \/ StartSession
    \/ SessionBlink
    \/ Minute
    \/ get_current_data
    \/ get_blink_history

\* The tracker started, its blinks over the minutes of the clock, and the
\* two readers of its aggregation.
SpecBlinks == InitEmpty /\ [][NextBlinks]_vars

\* ------------------------------------- stop() against the tracking loops
\* A Thread just started on _tracking_loop; total_blinks is the value its
\* _record_blink has read for the increment of line 226.
NewLoop == [pc |-> "while", total_blinks |-> 0]

LoopIds == 1..Len(loops)

\* Thread i is inside _tracking_loop.
Live(i) == loops[i].pc # "ended"

\* The Thread stop() joins: the newest one (line 115).
JoinedThreadAlive == loops # <<>> /\ Live(Len(loops))

\* start() (line 50-93) on the GUI thread; a live start appends its Thread.
GuiStart ==
    /\ gui.pc = "idle"
    /\ signals["tracking_started"] < MaxStarts
    /\ \E cam_ok, casc_ok \in BOOLEAN :
          LET r == StartedEyeTracker(eye_tracker, cam_ok, casc_ok, TRUE)
              live == ~eye_tracker.is_running /\ cam_ok /\ casc_ok
          IN  /\ eye_tracker' = r.obj
              /\ Emit("tracking_started", r.emitted)
              /\ outcome' = [op |-> "EyeTracker.start", raised |-> r.raised,
                              emitted |-> r.emitted]
              /\ loops' = IF live THEN Append(loops, NewLoop) ELSE loops
    /\ emitted_blinks' = IF eye_tracker.is_running THEN emitted_blinks ELSE <<>>
    /\ UNCHANGED <<system_monitor, tracking_loop, blink_data, gui,
                   monitoring_loop, system_data, app, callers, data_manager>>

\* stop() up to the simulation timer (line 95-107): the no-op return, or the
\* two flags.
StopFlags ==
    /\ gui.pc = "idle"
    /\ IF ~eye_tracker.is_running
       THEN /\ outcome' = [op |-> "EyeTracker.stop", raised |-> FALSE,
                            emitted |-> FALSE]
            /\ UNCHANGED <<eye_tracker, gui>>
       ELSE /\ eye_tracker' =
                  [eye_tracker EXCEPT
                      !.should_stop = TRUE,
                      !.is_running = FALSE,
                      !.simulation_timer =
                          IF eye_tracker.simulation_mode THEN FALSE ELSE @]
            /\ gui' = [pc |-> "release", waited |-> "none"]
            /\ UNCHANGED outcome
    /\ UNCHANGED <<system_monitor, signals, tracking_loop, emitted_blinks,
                   blink_data, loops, monitoring_loop, system_data, app,
                   callers, data_manager>>

\* stop(): if self.camera: self.camera.release() (line 110-111).
StopRelease ==
    /\ gui.pc = "release"
    /\ IF eye_tracker.camera # "None"
       THEN /\ eye_tracker' = [eye_tracker EXCEPT !.camera = "released"]
            /\ gui' = [gui EXCEPT !.pc = "clear"]
       ELSE /\ gui' = [gui EXCEPT !.pc = "join"]
            /\ UNCHANGED eye_tracker
    /\ UNCHANGED <<system_monitor, signals, outcome, tracking_loop,
                   emitted_blinks, blink_data, loops, monitoring_loop,
                   system_data, app, callers, data_manager>>

\* stop(): self.camera = None (line 112).
StopClear ==
    /\ gui.pc = "clear"
    /\ eye_tracker' = [eye_tracker EXCEPT !.camera = "None"]
    /\ gui' = [gui EXCEPT !.pc = "join"]
    /\ UNCHANGED <<system_monitor, signals, outcome, tracking_loop,
                   emitted_blinks, blink_data, loops, monitoring_loop,
                   system_data, app, callers, data_manager>>

\* stop() returns: tracking_stopped is emitted (line 118).
StopReturn(waited) ==
    /\ gui' = [pc |-> "idle", waited |-> waited]
    /\ Emit("tracking_stopped", TRUE)
    /\ outcome' = [op |-> "EyeTracker.stop", raised |-> FALSE,
                    emitted |-> TRUE]

\* stop(): the test of is_alive() (line 115); a Thread that is not alive is
\* not joined.
StopJoin ==
    /\ gui.pc = "join"
    /\ IF JoinedThreadAlive
       THEN /\ gui' = [gui EXCEPT !.pc = "joining"]
            /\ UNCHANGED <<signals, outcome>>
       ELSE StopReturn("none")
    /\ UNCHANGED <<eye_tracker, system_monitor, tracking_loop, emitted_blinks,
                   blink_data, loops, monitoring_loop, system_data, app,
                   callers, data_manager>>

\* stop(): join(timeout=2.0) returns (line 116), the Thread having ended or
\* the two seconds having passed.
StopJoined ==
    /\ gui.pc = "joining"
    /\ \/ ~JoinedThreadAlive /\ StopReturn("joined")
       \/ StopReturn("timeout")
    /\ UNCHANGED <<eye_tracker, system_monitor, tracking_loop, emitted_blinks,
                   blink_data, loops, monitoring_loop, system_data, app,
                   callers, data_manager>>

\* reset_session() (line 273-278) on the GUI thread.
reset_session ==
    /\ gui.pc = "idle"
    /\ eye_tracker' = [eye_tracker EXCEPT !.total_blinks = 0,
                                          !.session_start_time = now,
                                          !.blink_history = <<>>]
    /\ emitted_blinks' = <<>>
    /\ UNCHANGED <<system_monitor, signals, outcome, tracking_loop, blink_data,
                   gui, loops, monitoring_loop, system_data, app, callers,
                   data_manager>>

\* The simulation timer's callback on the GUI thread (line 214-220).
GuiSimulateBlink ==
    /\ gui.pc = "idle"
    /\ simulate_blink
    /\ emitted_blinks' = Append(emitted_blinks, now)
    /\ UNCHANGED <<tracking_loop, blink_data, gui, loops, monitoring_loop,
                   system_data>>

\* Thread i leaves _tracking_loop (line 212).
LoopEnds(i) ==
    /\ loops' = [loops EXCEPT ![i].pc = "ended"]
    /\ eye_tracker' = IF i = Len(loops)
                      THEN [eye_tracker EXCEPT !.tracking_thread = "ended"]
                      ELSE [eye_tracker EXCEPT !.old_loops = @ - 1]

\* The loop condition (line 173): not self.should_stop and self.camera.
LoopWhile(i) ==
    /\ loops[i].pc = "while"
    /\ IF eye_tracker.should_stop \/ eye_tracker.camera = "None"
       THEN LoopEnds(i)
       ELSE /\ loops' = [loops EXCEPT ![i].pc = "isOpened"]
            /\ UNCHANGED eye_tracker
    /\ UNCHANGED <<system_monitor, signals, outcome, tracking_loop,
                   emitted_blinks, blink_data, gui, monitoring_loop,
                   system_data, app, callers, data_manager>>

\* The loop condition (line 173): self.camera.isOpened().  On None it
\* raises, which the except of line 209 catches; on a released device it is
\* false.
LoopIsOpened(i) ==
    /\ loops[i].pc = "isOpened"
    /\ IF eye_tracker.camera = "opened"
       THEN /\ loops' = [loops EXCEPT ![i].pc = "read"]
            /\ UNCHANGED eye_tracker
       ELSE LoopEnds(i)
    /\ UNCHANGED <<system_monitor, signals, outcome, tracking_loop,
                   emitted_blinks, blink_data, gui, monitoring_loop,
                   system_data, app, callers, data_manager>>

\* self.camera.read() (line 174-177): a frame, or none and the loop breaks;
\* a released device gives none, None raises.
LoopRead(i) ==
    /\ loops[i].pc = "read"
    /\ \/ /\ eye_tracker.camera = "opened"
          /\ loops' = [loops EXCEPT ![i].pc = "frame"]
          /\ UNCHANGED eye_tracker
       \/ LoopEnds(i)
    /\ UNCHANGED <<system_monitor, signals, outcome, tracking_loop,
                   emitted_blinks, blink_data, gui, monitoring_loop,
                   system_data, app, callers, data_manager>>

\* The frame analysed (line 179-204): no blink, or _record_blink entered
\* and self.total_blinks read for the increment (line 226).  With cascades
\* that a later start() failed to load (simulation mode over an opened
\* camera) detectMultiScale raises, which the except of line 209 catches.
LoopFrame(i) ==
    /\ loops[i].pc = "frame"
    /\ IF eye_tracker.simulation_mode
       THEN LoopEnds(i)
       ELSE /\ \/ loops' = [loops EXCEPT ![i].pc = "while"]
               \/ /\ signals["blink_detected"] < MaxBlinks
                  /\ loops' = [loops EXCEPT
                                  ![i] = [pc |-> "store",
                                          total_blinks |->
                                              eye_tracker.total_blinks]]
            /\ UNCHANGED eye_tracker
    /\ UNCHANGED <<system_monitor, signals, outcome, tracking_loop,
                   emitted_blinks, blink_data, gui, monitoring_loop,
                   system_data, app, callers, data_manager>>

\* _record_blink from the store of the increment on (line 226-234).
LoopStore(i) ==
    /\ loops[i].pc = "store"
    /\ eye_tracker' = [RecordedBlink(eye_tracker) EXCEPT
                          !.total_blinks = loops[i].total_blinks + 1]
    /\ Emit("blink_detected", TRUE)
    /\ emitted_blinks' = Append(emitted_blinks, now)
    /\ loops' = [loops EXCEPT ![i] = NewLoop]
    /\ UNCHANGED <<system_monitor, outcome, tracking_loop, blink_data, gui,
                   monitoring_loop, system_data, app, callers, data_manager>>

\* A step of Thread i, if start() has created it.
LoopStepOf(i) ==
    /\ i \in LoopIds
    /\ \/ LoopWhile(i)
       \/ LoopIsOpened(i)
       \/ LoopRead(i)
       \/ LoopFrame(i)
       \/ LoopStore(i)

\* A step of a tracking loop.
LoopStep == \E i \in 1..MaxStarts : LoopStepOf(i)

NextThreads ==
    \/ GuiStart
    \/ StopFlags
    \/ StopRelease
    \/ StopClear
    \/ StopJoin
    \/ StopJoined
    \/ reset_session
    \/ GuiSimulateBlink
    \/ LoopStep

\* The GUI thread in start(), stop() and reset_session() line by line,
\* against the threads in _tracking_loop.
SpecThreads == InitEmpty /\ [][NextThreads]_vars

\* The same with the SystemMonitor started and stopped beside it.
NextLoops ==
    \/ NextThreads
    \/ /\ signals["monitoring_started"] < MaxStarts
       /\ SystemMonitor_start
       /\ UNCHANGED threads
    \/ SystemMonitor_stop /\ UNCHANGED threads
    \/ MonitoringLoopExit /\ UNCHANGED threads

\* Threads are scheduled: a tracking loop that can take a step takes one,
\* and a monitoring loop that finds should_stop set at line 101 ends.
LoopFairness ==
    /\ \A i \in 1..MaxStarts : WF_vars(LoopStepOf(i))
    /\ WF_vars(MonitoringLoopExit /\ UNCHANGED threads)

FairLoops == InitEmpty /\ [][NextLoops]_vars /\ LoopFairness

\* ------------------------------------------- the monitoring loop, by tick
\* What psutil finds for a battery (line 172-180): no sensors_battery at
\* all, sensors_battery() giving None, or a battery.
Hosts == {"no_sensors", "desktop", "laptop"}

\* How the connect of line 160 ends: connected, socket.error (line 163), or
\* another exception (line 165).
Probes == {"connected", "socket_error", "error"}

\* The calls of an iteration in their order (line 103-111).
TickOrder == <<"cpu", "memory", "disk", "network", "battery",
               "process_count", "emit">>

\* A variant in which a read that raises ends the loop.
After_Abort(step, ok) ==
    IF ok
    THEN TickOrder[(CHOOSE k \in 1..Len(TickOrder) : TickOrder[k] = step) + 1]
    ELSE "ended"

\* The call after the _update_ call named: each catches what its read
\* raises (line 128, 141, 152, 163-165, 182, 190) and returns.
After(step, ok) ==
    TickOrder[(CHOOSE k \in 1..Len(TickOrder) : TickOrder[k] = step) + 1]

\* current_metrics after a read of the field: the value is stored unless
\* the read raised (line 125-126, 135-137, 149-150, 188).
Refreshed(metrics, field, value, ok) ==
    IF ok THEN [metrics EXCEPT ![field] = value] ELSE metrics

\* A variant that leaves network_available as it was when the probe ends in
\* an exception other than socket.error.
Probed_KeepsOnError(metrics, probe) ==
    IF probe = "error" THEN metrics
    ELSE [metrics EXCEPT !.network_available = (probe = "connected")]

\* current_metrics after _update_network_status (line 155-167).
Probed(metrics, probe) ==
    [metrics EXCEPT !.network_available = (probe = "connected")]

\* current_metrics after _update_battery_metrics (line 169-183) on the host.
BatteryRead(metrics, host, value, plugged, ok) ==
    IF ~ok \/ host = "no_sensors" THEN metrics
    ELSE IF host = "laptop"
    THEN [metrics EXCEPT !.battery_percent = value,
                         !.power_connected = IF plugged THEN "True"
                                             ELSE "False"]
    ELSE [metrics EXCEPT !.battery_percent = NoValue,
                         !.power_connected = "True"]

\* while not self.should_stop (line 101): the next iteration begins, or the
\* loop ends.
TickBegin ==
    /\ monitoring_loop.pc = "while"
    /\ IF system_monitor.should_stop
       THEN /\ monitoring_loop' = [monitoring_loop EXCEPT !.pc = "ended"]
            /\ system_monitor' =
                  [system_monitor EXCEPT !.monitoring_thread = "ended"]
       ELSE /\ monitoring_loop.tick < MaxTicks
            /\ monitoring_loop' = [monitoring_loop EXCEPT
                                      !.pc = TickOrder[1], !.tick = @ + 1]
            /\ UNCHANGED system_monitor
    /\ UNCHANGED <<eye_tracker, signals, outcome, tracking_loop,
                   emitted_blinks, blink_data, gui, loops, system_data, app,
                   callers, data_manager>>

\* _update_cpu_metrics, _update_memory_metrics, _update_disk_metrics and
\* _update_process_count (line 121-153, 185-191): the reading of the tick,
\* or a read that raises.
UpdateMetric(step, field, oks) ==
    /\ monitoring_loop.pc = step
    /\ \E ok \in oks :
          /\ system_monitor' =
                [system_monitor EXCEPT
                    !.current_metrics =
                        Refreshed(@, field, monitoring_loop.tick, ok)]
          /\ monitoring_loop' = [monitoring_loop EXCEPT !.pc = After(step, ok)]
    /\ UNCHANGED <<eye_tracker, signals, outcome, tracking_loop,
                   emitted_blinks, blink_data, gui, loops, system_data, app,
                   callers, data_manager>>

\* _update_network_status (line 155-167).
update_network_status(probes) ==
    /\ monitoring_loop.pc = "network"
    /\ \E probe \in probes :
          /\ system_monitor' =
                [system_monitor EXCEPT !.current_metrics = Probed(@, probe)]
          /\ monitoring_loop' =
                [monitoring_loop EXCEPT
                    !.pc = After("network", probe = "connected"),
                    !.probe = probe]
    /\ UNCHANGED <<eye_tracker, signals, outcome, tracking_loop,
                   emitted_blinks, blink_data, gui, loops, system_data, app,
                   callers, data_manager>>

\* _update_battery_metrics (line 169-183).
update_battery_metrics(oks) ==
    /\ monitoring_loop.pc = "battery"
    /\ \E ok \in oks, plugged \in BOOLEAN :
          /\ system_monitor' =
                [system_monitor EXCEPT
                    !.current_metrics =
                        BatteryRead(@, monitoring_loop.host,
                                    monitoring_loop.tick, plugged, ok)]
          /\ monitoring_loop' =
                [monitoring_loop EXCEPT !.pc = After("battery", ok)]
    /\ UNCHANGED <<eye_tracker, signals, outcome, tracking_loop,
                   emitted_blinks, blink_data, gui, loops, system_data, app,
                   callers, data_manager>>

\* metrics_updated.emit(self.current_metrics.copy()) and the sleep (line
\* 111-114).  kept: the copy emitted is remembered.
EmitMetrics(kept) ==
    /\ monitoring_loop.pc = "emit"
    /\ Emit("metrics_updated", TRUE)
    /\ monitoring_loop' =
          [monitoring_loop EXCEPT
              !.pc = "while",
              !.completed = IF kept
                            THEN @ \cup {system_monitor.current_metrics}
                            ELSE @]
    /\ UNCHANGED <<eye_tracker, system_monitor, outcome, tracking_loop,
                   emitted_blinks, blink_data, gui, loops, system_data, app,
                   callers, data_manager>>

\* The six _update_ calls of an iteration, their reads ending as oks and
\* probes allow.
TickStep(oks, probes) ==
    \/ UpdateMetric("cpu", "cpu_percent", oks)
    \/ UpdateMetric("memory", "memory_percent", oks)
    \/ UpdateMetric("disk", "disk_usage_percent", oks)
    \/ update_network_status(probes)
    \/ update_battery_metrics(oks)
    \/ UpdateMetric("process_count", "process_count", oks)

\* SystemMonitor.get_current_data() (line 205-207) on the GUI thread.
SystemMonitor_get_current_data ==
    /\ system_data' = [returned |-> "data",
                       metrics |-> system_monitor.current_metrics]
    /\ UNCHANGED <<samplers, tracking_loop, emitted_blinks, blink_data, gui,
                   loops, monitoring_loop, app, callers, data_manager>>

\* save_data (dashboard_widget.py line 531-540): the metrics as they are go
\* into save_session_data.
save_data ==
    /\ system_monitor.is_running
    /\ save_session_data
    /\ UNCHANGED ext

\* stop() (line 75-94) while the thread is inside _monitoring_loop: the join
\* of line 88 ends with the thread alive, or the thread has ended before.
MonitorStop ==
    /\ monitoring_loop.pc # "none"
    /\ LET r == StoppedSystemMonitor(system_monitor, FALSE)
       IN  /\ system_monitor' = r.obj
           /\ Emit("monitoring_stopped", r.emitted)
           /\ outcome' = [op |-> "SystemMonitor.stop", raised |-> r.raised,
                           emitted |-> r.emitted]
    /\ UNCHANGED <<eye_tracker, threads, app, callers, data_manager>>

\* The SystemMonitor after start() on one of the hosts, its thread at the
\* top of _monitoring_loop.
InitTicks(hosts) ==
    /\ InitStore(<<>>, <<>>)
    /\ InitCallers
    /\ InitApp
    /\ eye_tracker = InitEyeTracker
    /\ system_monitor = StartedSystemMonitor(InitSystemMonitor, TRUE).obj
    /\ signals = [g \in SamplerSignals |->
                     IF g = "monitoring_started" THEN 1 ELSE 0]
    /\ outcome = [op |-> "SystemMonitor.start", raised |-> FALSE,
                  emitted |-> TRUE]
    /\ tracking_loop = NoLoop
    /\ emitted_blinks = <<>>
    /\ blink_data = NoData
    /\ gui = NoStop
    /\ loops = <<>>
    /\ \E host \in hosts :
          monitoring_loop =
              [NoMonitoring EXCEPT
                  !.pc = "while", !.host = host,
                  !.completed = {InitSystemMonitor.current_metrics}]
    /\ system_data = NoData

NextTicks ==
    \/ TickBegin
    \/ TickStep(BOOLEAN, Probes)
    \/ EmitMetrics(FALSE)
    \/ MonitorStop

\* One monitoring loop on a host with a battery, any of its reads failing.
SpecTicks == InitTicks({"laptop"}) /\ [][NextTicks]_vars

NextSnapshot ==
    \/ TickBegin
    \/ TickStep({TRUE}, {"connected", "socket_error"})
    \/ EmitMetrics(TRUE)
    \/ MonitorStop
    \/ SystemMonitor_get_current_data
    \/ save_data

\* One monitoring loop whose reads succeed, against the GUI thread reading
\* and saving the metrics.
SpecSnapshot == InitTicks(Hosts) /\ [][NextSnapshot]_vars

\* ------------------------------------------------ the dashboard's handlers
\* start_monitoring (dashboard_widget.py line 373-421), a handler of the GUI
\* thread: the no-op when is_monitoring, else the two start() calls, the
\* timers and the flag.  What a start() raises is caught at line 419 and
\* the rest of the try block is skipped.
start_monitoring ==
    /\ process = "running"
    /\ signals["tracking_started"] < MaxStarts
    /\ signals["monitoring_started"] < MaxStarts
    /\ \E cam_ok, casc_ok, thread_ok, monitor_ok \in BOOLEAN :
          LET e == StartedEyeTracker(eye_tracker, cam_ok, casc_ok, thread_ok)
              m == StartedSystemMonitor(system_monitor, monitor_ok)
              started == ~e.raised /\ ~m.raised
          IN  IF dashboard_widget.is_monitoring
              THEN /\ outcome' = [op |-> "start_monitoring", raised |-> FALSE,
                                   emitted |-> FALSE]
                   /\ UNCHANGED <<eye_tracker, system_monitor, signals,
                                  dashboard_widget>>
              ELSE /\ eye_tracker' = e.obj
                   /\ system_monitor' = IF e.raised THEN system_monitor
                                        ELSE m.obj
                   /\ signals' =
                         [signals EXCEPT
                             !["tracking_started"] =
                                 IF e.emitted THEN @ + 1 ELSE @,
                             !["monitoring_started"] =
                                 IF ~e.raised /\ m.emitted THEN @ + 1 ELSE @]
                   /\ dashboard_widget' =
                         IF started
                         THEN [dashboard_widget EXCEPT
                                  !.is_monitoring = TRUE,
                                  !.update_timer = TRUE,
                                  !.save_timer = TRUE,
                                  !.starts = @ + 1]
                         ELSE dashboard_widget
                   /\ outcome' = [op |-> "start_monitoring",
                                   raised |-> ~started, emitted |-> started]
    /\ UNCHANGED <<process, constructed, sync_timer, stats, callers, threads,
                   data_manager>>

\* stop_monitoring (line 423-465): the no-op when not is_monitoring, else
\* the timers stopped, the two stop() calls, save_data() with is_monitoring
\* still set (line 440), and the flag.
stop_monitoring ==
    /\ process = "running"
    /\ IF ~dashboard_widget.is_monitoring
       THEN /\ outcome' = [op |-> "stop_monitoring", raised |-> FALSE,
                            emitted |-> FALSE]
            /\ UNCHANGED <<eye_tracker, system_monitor, signals,
                           dashboard_widget, data_manager>>
       ELSE /\ \E tracking_joined, monitoring_joined \in BOOLEAN :
                  LET e == StoppedEyeTracker(eye_tracker, tracking_joined)
                      m == StoppedSystemMonitor(system_monitor,
                                                monitoring_joined)
                  IN  /\ eye_tracker' = e.obj
                      /\ system_monitor' = m.obj
                      /\ signals' =
                            [signals EXCEPT
                                !["tracking_stopped"] =
                                    IF e.emitted THEN @ + 1 ELSE @,
                                !["monitoring_stopped"] =
                                    IF m.emitted THEN @ + 1 ELSE @]
            /\ save_session_data
            /\ dashboard_widget' = [dashboard_widget EXCEPT
                                        !.is_monitoring = FALSE,
                                        !.update_timer = FALSE,
                                        !.save_timer = FALSE]
            /\ outcome' = [op |-> "stop_monitoring", raised |-> FALSE,
                            emitted |-> TRUE]
    /\ UNCHANGED <<process, constructed, sync_timer, stats, callers, threads>>

\* The save timer expires (line 371, 389): save_data (line 531-549).
SaveTimerExpires ==
    /\ dashboard_widget.save_timer
    /\ IF dashboard_widget.is_monitoring
       THEN save_session_data
       ELSE UNCHANGED data_manager
    /\ UNCHANGED ext

\* An iteration of a monitoring loop that finds should_stop false
\* (system_monitor.py line 101-114).
MonitoringLoopTick ==
    /\ LoopsAlive(system_monitor, "monitoring_thread")
    /\ ~system_monitor.should_stop
    /\ signals["metrics_updated"] < MaxTicks
    /\ Emit("metrics_updated", TRUE)
    /\ UNCHANGED <<eye_tracker, system_monitor, outcome, app, callers, threads,
                   data_manager>>

NextCoordinator ==
    \/ start_monitoring
    \/ stop_monitoring
    \/ SaveTimerExpires
    \/ MonitoringLoopTick
    \/ MonitoringLoopExit /\ UNCHANGED threads
    \/ simulate_blink /\ UNCHANGED threads
    \/ TrackingLoopBlink /\ UNCHANGED threads
    \/ TrackingLoopExit /\ UNCHANGED threads

\* The dashboard's handlers on the GUI thread with the loops and the
\* simulation timer of the two samplers.
SpecCoordinator == InitEmpty /\ [][NextCoordinator]_vars

\* --------------------------------------------- the GUI thread's event loop
\* The DashboardWidget, its timers and the DataManager with its sync_timer
\* are created on the GUI thread (dashboard_widget.py line 20-37,
\* data_manager.py line 36-37), so the slots of the timers and of the button
\* are called by that thread's event loop, one after the other: a slot is
\* called only when the slot before it has returned.  sync_data is such a
\* slot and runs as an ordinary call (data_manager.py line 282-328, with
\* time.sleep(1) at line 358): the thread is back in its event loop when the
\* call has returned.
InEventLoop == pc["timer"] = "idle"

\* The slot of save_timer.
SaveTimerSlot == InEventLoop /\ SaveTimerExpires

\* The slot of sync_timer: sync_data is entered.
SyncTimerSlot == InEventLoop /\ Trigger("timer") /\ UNCHANGED ext

\* The slot of monitor_button (toggle_monitoring, line 467-472).
toggle_monitoring ==
    /\ InEventLoop
    /\ IF dashboard_widget.is_monitoring
       THEN stop_monitoring
       ELSE start_monitoring

NextForeground ==
    \/ toggle_monitoring
    \/ SaveTimerSlot
    \/ SyncTimerSlot
    \/ SyncEnter("timer") /\ UNCHANGED ext
    \/ SyncCount("timer") /\ UNCHANGED ext
    \/ SyncDeliver("timer") /\ UNCHANGED ext
    \/ SyncMark("timer") /\ UNCHANGED ext
    \/ SyncLogOk("timer") /\ UNCHANGED ext
    \/ SyncLogFail("timer") /\ UNCHANGED ext
    \/ SyncExcept("timer") /\ UNCHANGED ext
    \/ SyncFinally("timer") /\ UNCHANGED ext

\* The GUI thread of the application: the slots it runs and, inside the slot
\* of sync_timer, the statements of sync_data.
SpecForeground == Init /\ [][NextForeground]_vars

\* ------------------------------------------------------------ statistics
\* The users whose statistics are asked: the one user of the application and
\* another one.
StatsUsers == {DemoUser, "u1"}

\* The values of the parameter days, in ticks of the clock.
StatsDays == {0, 1}

\* The (cpu_percent, memory_percent) pair psutil reports.
Reading == <<20, 40>>

RECURSIVE Gcd(_, _)
Gcd(a, b) == IF b = 0 THEN a ELSE Gcd(b, a % b)

RECURSIVE SumOf(_, _, _)
\* SUM(col) over the rows of tbl with the ids in ids.
SumOf(tbl, ids, col) ==
    IF ids = {} THEN 0
    ELSE LET i == CHOOSE j \in ids : TRUE
         IN  tbl[i][col] + SumOf(tbl, ids \ {i}, col)

\* "AVG(col) or 0" over those rows, as a fraction in lowest terms: AVG over
\* no row is NULL, which "or 0" turns into 0 (line 267-273).
AvgOrZero(tbl, ids, col) ==
    LET sum == SumOf(tbl, ids, col)
        n == Cardinality(ids)
    IN  IF n = 0 \/ sum = 0 THEN [num |-> 0, den |-> 1]
        ELSE [num |-> sum \div Gcd(sum, n), den |-> n \div Gcd(sum, n)]

\* A variant of the two SELECTs without "user_id = ?" in the WHERE clause.
SessionStats_AllUsers(sessions, metrics, time, user_id, days) ==
    LET cutoff_date == time - days
        s == {i \in 1..Len(sessions) : sessions[i].session_start >= cutoff_date}
        m == {i \in 1..Len(metrics) : metrics[i].timestamp >= cutoff_date}
    IN  [returned |-> "dict", user_id |-> user_id, days |-> days,
         eye_stats |->
            [session_count |-> Cardinality(s),
             avg_blinks |-> AvgOrZero(sessions, s, "total_blinks"),
             avg_bpm |-> AvgOrZero(sessions, s, "blinks_per_minute"),
             high_strain_sessions |->
                Cardinality({i \in s : sessions[i].eye_strain_level = "high"})],
         system_stats |->
            [avg_cpu |-> AvgOrZero(metrics, m, "cpu_percent"),
             avg_memory |-> AvgOrZero(metrics, m, "memory_percent")]]

\* What get_session_stats(user_id, days) returns (line 239-277) at the given
\* time over the tables eye_sessions and system_metrics, with the arguments
\* of the call.
SessionStats(sessions, metrics, time, user_id, days) ==
    LET cutoff_date == time - days
        s == {i \in 1..Len(sessions) :
                 /\ sessions[i].user_id = user_id
                 /\ sessions[i].session_start >= cutoff_date}
        m == {i \in 1..Len(metrics) :
                 /\ metrics[i].user_id = user_id
                 /\ metrics[i].timestamp >= cutoff_date}
    IN  [returned |-> "dict", user_id |-> user_id, days |-> days,
         eye_stats |->
            [session_count |-> Cardinality(s),
             avg_blinks |-> AvgOrZero(sessions, s, "total_blinks"),
             avg_bpm |-> AvgOrZero(sessions, s, "blinks_per_minute"),
             high_strain_sessions |->
                Cardinality({i \in s : sessions[i].eye_strain_level = "high"})],
         system_stats |->
            [avg_cpu |-> AvgOrZero(metrics, m, "cpu_percent"),
             avg_memory |-> AvgOrZero(metrics, m, "memory_percent")]]

\* get_session_stats(user_id, days) (line 232-280): the dict, or None when
\* an sqlite3 call raises.
get_session_stats(user_id, days) ==
    /\ \/ /\ stats' = SessionStats(eye_sessions, system_metrics, now,
                                   user_id, days)
          /\ UNCHANGED troubles
       \/ /\ MayFault /\ Fault
          /\ stats' = [returned |-> "None"]
    /\ UNCHANGED <<store, fields, now, locals, since_mark>>
    /\ UNCHANGED <<process, constructed, sync_timer, dashboard_widget,
                   samplers, callers, threads>>

\* The session rows earlier runs have left in the store by time 1: of
\* either user, started and ended with one of the summaries.
PriorSessionRows ==
    {EndedSessionRow(NewSessionRow(u), in[1], in[2]) :
        u \in StatsUsers, in \in SummaryInputs}

\* The eye_sessions tables earlier runs can have left: up to MaxRows + 1
\* rows.
PriorSessions == UNION {[1..k -> PriorSessionRows] : k \in 0..(MaxRows + 1)}

\* The system monitor after start() and an iteration of _monitoring_loop
\* (system_monitor.py line 96-119) that read the pair (line 121-142).
MonitorReading ==
    [StartedSystemMonitor(InitSystemMonitor, TRUE).obj EXCEPT
        !.current_metrics.cpu_percent = Reading[1],
        !.current_metrics.memory_percent = Reading[2]]

\* The running application over a store left by earlier runs, the system
\* monitor started.
InitStats ==
    /\ now = 1
    /\ \E sessions \in PriorSessions : InitStore(sessions, <<>>)
    /\ InitCallers
    /\ InitThreads
    /\ InitApp
    /\ eye_tracker = InitEyeTracker
    /\ system_monitor = MonitorReading
    /\ signals = [g \in SamplerSignals |->
                     IF g = "monitoring_started" THEN 1 ELSE 0]
    /\ outcome = [op |-> "SystemMonitor.start", raised |-> FALSE,
                  emitted |-> TRUE]

\* The statistics asked while sessions are opened, metrics are stored and
\* time passes.
NextStats ==
    \/ \E u \in StatsUsers : \E days \in StatsDays : get_session_stats(u, days)
    \/ \E u \in StatsUsers : start_eye_session(u) /\ UNCHANGED ext
    \/ save_session_data /\ UNCHANGED ext
    \/ Tick /\ UNCHANGED ext

SpecStats == InitStats /\ [][NextStats]_vars

\* ---------------------------------------------------------- the dashboard
\* The text update_display puts on eye_strain_label for the rate bpm
\* (dashboard_widget.py line 486-495).
StrainLabel(bpm) ==
    IF bpm < 10 THEN "High Strain"
    ELSE IF bpm < 15 THEN "Moderate"
    ELSE "Normal"

\* update_display (dashboard_widget.py line 474-529), its eye tracking part:
\* bpm is blinks_per_minute of eye_tracker.get_current_data().
update_display(bpm) ==
    /\ eye_tracker.is_running
    /\ dashboard_widget' = [dashboard_widget EXCEPT
                                !.bpm = bpm,
                                !.eye_strain_label = StrainLabel(bpm)]
    /\ UNCHANGED <<process, constructed, sync_timer, stats, samplers, callers,
                   threads, data_manager>>

\* The eye tracker runs in simulation mode and a session was opened at
\* time 1.
InitStrain ==
    /\ InitStore(<<NewSessionRow(DemoUser)>>, <<>>)
    /\ InitCallers
    /\ InitThreads
    /\ InitApp
    /\ eye_tracker = StartedEyeTracker(InitEyeTracker, FALSE, FALSE, TRUE).obj
    /\ system_monitor = InitSystemMonitor
    /\ signals = [g \in SamplerSignals |->
                     IF g = "tracking_started" THEN 1 ELSE 0]
    /\ outcome = [op |-> "EyeTracker.start", raised |-> FALSE,
                  emitted |-> TRUE]

\* The two places that classify a rate, each applied to the rates up to
\* MaxBpm: the dashboard's display and the end of the session.
NextStrain ==
    \/ \E bpm \in 0..MaxBpm : update_display(bpm)
    \/ /\ \E bpm \in 0..MaxBpm : end_eye_session(1, bpm, bpm)
       /\ UNCHANGED ext

SpecStrain == InitStrain /\ [][NextStrain]_vars

\* ------------------------------------------------------------ the process
\* The order in which MainWindow.__init__ constructs the DataManager objects:
\* its own (main_window.py line 25), then, through DashboardWidget(), the
\* dashboard's (main_window.py line 60, dashboard_widget.py line 25).
NextToConstruct ==
    IF constructed["main_window"] = "absent" THEN "main_window" ELSE "dashboard"

\* A variant of DataManager() that starts the timer before _init_database.
ConstructDataManager_TimerFirst(m) ==
    /\ process = "starting"
    /\ m = NextToConstruct
    /\ sync_timer' = [sync_timer EXCEPT ![m] = TRUE]
    /\ \E init_ok \in BOOLEAN :
          IF init_ok
          THEN /\ constructed' = [constructed EXCEPT ![m] = "ready"]
               /\ process' = IF m = "dashboard" THEN "running" ELSE "starting"
          ELSE /\ constructed' = [constructed EXCEPT ![m] = "failed"]
               /\ process' = "exited"
    /\ UNCHANGED <<dashboard_widget, stats, samplers, callers, threads,
                   data_manager>>

\* DataManager() for manager m during MainWindow() (main.py line 39-40).
\* When _init_database raises (data_manager.py line 117-119) __init__ ends at
\* line 43, before the timer is started at line 46, and main() leaves through
\* its except clause with sys.exit(1) (main.py line 48-50).
ConstructDataManager(m) ==
    /\ process = "starting"
    /\ m = NextToConstruct
    /\ \E init_ok \in BOOLEAN :
          IF init_ok
          THEN /\ constructed' = [constructed EXCEPT ![m] = "ready"]
               /\ sync_timer' = [sync_timer EXCEPT ![m] = TRUE]
               /\ process' = IF m = "dashboard" THEN "running" ELSE "starting"
          ELSE /\ constructed' = [constructed EXCEPT ![m] = "failed"]
               /\ process' = "exited"
               /\ UNCHANGED sync_timer
    /\ UNCHANGED <<dashboard_widget, stats, samplers, callers, threads,
                   data_manager>>

\* The process at the start of main() (main.py line 14-37): no DataManager
\* is constructed yet.
InitStartup ==
    /\ InitStore(<<>>, <<>>)
    /\ InitCallers
    /\ InitThreads
    /\ InitSamplers
    /\ process = "starting"
    /\ constructed = [m \in Managers |-> "absent"]
    /\ sync_timer = [m \in Managers |-> FALSE]
    /\ InitDashboard

\* The save timer of the dashboard fires (dashboard_widget.py line 389): it
\* runs between start_monitoring and stop_monitoring, after both samplers
\* were started, and save_data (line 530-548) calls save_session_data.
SaveTimer ==
    /\ process = "running"
    /\ eye_tracker.is_running
    /\ system_monitor.is_running
    /\ save_session_data
    /\ UNCHANGED ext

\* The calls of the samplers' start() and stop(), and the ends of their
\* loops.
SamplerCalls ==
    \/ /\ signals["tracking_started"] < MaxStarts
       /\ EyeTracker_start
       /\ UNCHANGED threads
    \/ EyeTracker_stop /\ UNCHANGED threads
    \/ TrackingLoopExit /\ UNCHANGED threads
    \/ /\ signals["monitoring_started"] < MaxStarts
       /\ SystemMonitor_start
       /\ UNCHANGED threads
    \/ SystemMonitor_stop /\ UNCHANGED threads
    \/ MonitoringLoopExit /\ UNCHANGED threads

\* The application from main() on: startup, then the samplers started and
\* stopped, and the save timer's store operation.
NextApp ==
    \/ \E m \in Managers : ConstructDataManager(m)
    \/ SamplerCalls
    \/ SaveTimer

SpecApp == InitStartup /\ [][NextApp]_vars

\* The samplers in the running application: their calls, and the blinks the
\* simulation timer and the tracking loops record.
NextSamplers ==
    \/ SamplerCalls
    \/ simulate_blink /\ UNCHANGED threads
    \/ TrackingLoopBlink /\ UNCHANGED threads

SpecSamplers == InitEmpty /\ [][NextSamplers]_vars

\* ------------------------------------------------- the simulation timer
\* random.randint(3000, 8000) (eye_tracker.py line 80, 220): the ends of the
\* range, in milliseconds.
MinInterval == 3000

MaxInterval == 8000

\* The values of random.randint(3000, 8000) the model draws: both ends and
\* one between.
Intervals == {MinInterval, (MinInterval + MaxInterval) \div 2, MaxInterval}

\* simulation_timer.start(ms) (line 80, 220) on the object et.
Armed(et, ms) == [et EXCEPT !.simulation_timer = TRUE, !.interval = ms]

\* start() (line 50-93) with the interval it draws in simulated mode.
SimulationStart ==
    /\ process = "running"
    /\ signals["tracking_started"] < MaxStarts
    /\ \E cam_ok, casc_ok, thread_ok \in BOOLEAN : \E ms \in Intervals :
          LET r == StartedEyeTracker(eye_tracker, cam_ok, casc_ok, thread_ok)
          IN  /\ eye_tracker' = IF r.emitted /\ r.obj.simulation_mode
                                THEN Armed(r.obj, ms)
                                ELSE r.obj
              /\ Emit("tracking_started", r.emitted)
              /\ outcome' = [op |-> "EyeTracker.start", raised |-> r.raised,
                              emitted |-> r.emitted]
    /\ UNCHANGED <<system_monitor, app, callers, threads, data_manager>>

\* The simulation timer expires: _simulate_blink (line 214-220) records a
\* blink and starts the timer with the interval it draws.
SimulationTimerExpires ==
    /\ eye_tracker.simulation_timer
    /\ signals["blink_detected"] < MaxBlinks
    /\ \E ms \in Intervals :
          eye_tracker' = Armed(RecordedBlink(eye_tracker), ms)
    /\ Emit("blink_detected", TRUE)
    /\ UNCHANGED <<system_monitor, outcome, app, callers, threads,
                   data_manager>>

NextSimulation ==
    \/ SimulationStart
    \/ EyeTracker_stop /\ UNCHANGED threads
    \/ SimulationTimerExpires
    \/ Tick /\ UNCHANGED ext

\* The EyeTracker started and stopped on the GUI thread, with the
\* simulation timer, whose callback runs on that thread.
SpecSimulation == InitEmpty /\ [][NextSimulation]_vars

\* A timer that is started expires (the event loop keeps running).
FairSimulation ==
    InitEmpty /\ [][NextSimulation]_vars /\ WF_vars(SimulationTimerExpires)

\* ================================================================ claims
\* Rows whose synced flag goes from 0 to 1 in a step.
NewlySynced == {r \in UnsyncedRows : Row(r).synced'}

\* Context c takes the step of sync_data that leads from position p to q.
Moves(c, p, q) == pc[c] = p /\ pc'[c] = q

\* ------------------------------------------------------------------- C1
\* C1: at any time at most one invocation of sync_data is past the
\* is_syncing guard, whatever the interleaving of the triggers.
C1_AtMostOneSyncing == Cardinality({c \in SyncCtx : pc[c] \in Syncing}) <= 1

\* ------------------------------------------------------------------- C2
\* C2: an attempt that entered Syncing returns to idle; on each of its paths
\* (nothing to sync, delivery succeeded, delivery failed, exception) it ends
\* in the finally clause, and is_syncing is false when sync_data returns.
C2_ReturnClearsGuard ==
    /\ [][\A c \in SyncCtx :
             /\ (pc[c] \in Syncing /\ pc'[c] = "idle") => ~is_syncing'
             /\ (pc[c] \in {"count", "logok", "logfail", "except"}
                    /\ pc'[c] # pc[c])
                   => pc'[c] \in {"deliver", "finally"}]_vars
    /\ \A c \in SyncCtx :
          (pc[c] \in Syncing) ~> (pc[c] = "idle" /\ ~is_syncing)

\* An attempt that took the except clause has returned, and no call is
\* inside sync_data.
C2_Witness ==
    /\ \A c \in SyncCtx : pc[c] = "idle"
    /\ ~is_syncing
    /\ \E i \in 1..Len(sync_log) : sync_log[i].error_message = "delivery raised"

\* ------------------------------------------------------------------- C3
\* C3: the rows an attempt marks synced are rows that were unsynced when it
\* took its count; a row inserted after the count is not marked by it.
C3_MarksOnlyCounted ==
    [][\A c \in SyncCtx :
          Moves(c, "mark", "logok") => NewlySynced \subseteq batch[c]]_vars

\* ------------------------------------------------------------------- C4
\* C4: an attempt that counted c > 0 rows and whose delivery succeeded ends
\* with every row synced (when no row was inserted since its count),
\* last_sync_time set, exactly one sync_log row (c, 1, NULL) appended, and
\* "Sync complete" with sync_completed(True) emitted.
C4_SuccessPostcondition ==
    [][\A c \in SyncCtx :
          Moves(c, "logok", "finally") =>
             /\ (TotalRows' = rows_at_count[c] => UnsyncedTotal' = 0)
             /\ last_sync_time' # NoTime
             /\ logged'[c] = 1
             /\ sync_log' = Append(sync_log,
                                   [sync_time |-> now,
                                    records_synced |-> unsynced_count[c],
                                    success |-> 1,
                                    error_message |-> NoText])
             /\ status'[c] = "Sync complete"
             /\ completed'[c] = "true"]_vars

\* ------------------------------------------------------------------- C5
\* The sync_log row the failure branch writes for context c.
FailureRow(c) ==
    [sync_time |-> now, records_synced |-> unsynced_count[c], success |-> 0,
     error_message |-> "Simulated failure"]

\* Context c is on the failure branch: its delivery returned False.
OnFailureBranch(c) ==
    \/ pc[c] = "logfail"
    \/ pc[c] = "finally" /\ status[c] = "Sync failed"

\* C5 as stated: the attempt whose delivery failed appends one sync_log row
\* (c, 0, non-null message), always.
C5_AlwaysOneFailureRow ==
    [][\A c \in SyncCtx :
          Moves(c, "logfail", "finally") =>
             sync_log' = Append(sync_log, FailureRow(c))]_vars

\* C5: when the delivery of an attempt with count c > 0 fails, the steps of
\* that attempt change no data row, last_sync_time or pending_sync_count;
\* they append the one sync_log row (c, 0, non-null message), or no row when
\* that insert itself faults; and the attempt goes on to its return without
\* a second delivery.
C5_FailureFrame ==
    [][\A c \in SyncCtx :
          /\ Moves(c, "deliver", "logfail") =>
                /\ unsynced_count[c] > 0
                /\ UNCHANGED <<store, last_sync_time, pending_sync_count>>
          /\ (OnFailureBranch(c) /\ pc'[c] # pc[c]) =>
                /\ UNCHANGED <<system_metrics, eye_sessions, blink_events,
                               last_sync_time, pending_sync_count>>
                /\ pc'[c] = IF pc[c] = "logfail" THEN "finally" ELSE "idle"
                /\ pc[c] = "finally" => UNCHANGED sync_log
                /\ pc[c] = "logfail" =>
                      \/ /\ sync_log' = Append(sync_log, FailureRow(c))
                         /\ FailureRow(c).error_message # NoText
                         /\ logged'[c] = 1
                      \/ /\ troubles' = troubles + 1
                         /\ UNCHANGED sync_log
                         /\ logged'[c] = 0]_vars

\* An attempt that counted unsynced rows has failed and logged the failure;
\* the rows are still unsynced.
C5_Witness ==
    \E c \in SyncCtx :
       /\ pc[c] = "finally"
       /\ status[c] = "Sync failed"
       /\ unsynced_count[c] > 0
       /\ logged[c] = 1
       /\ sync_log[Len(sync_log)].success = 0
       /\ sync_log[Len(sync_log)].records_synced = unsynced_count[c]
       /\ UnsyncedTotal >= unsynced_count[c]
       /\ last_sync_time = NoTime

\* ------------------------------------------------------------------- C6
\* Context c is on the no-op path: its count found nothing to sync.
OnNoOpPath(c) == pc[c] = "finally" /\ status[c] = "Up to date"

\* C6: a trigger whose count is 0 appends no sync_log row, changes no synced
\* flag and not last_sync_time, emits "Up to date" with sync_completed(True)
\* and returns to idle; so any number of such triggers leave the store as it
\* was.
C6_NoOpChangesNothing ==
    [][\A c \in SyncCtx :
          /\ Moves(c, "count", "finally") =>
                /\ unsynced_count'[c] = 0
                /\ UNCHANGED <<store, last_sync_time>>
                /\ logged'[c] = 0
                /\ status'[c] = "Up to date"
                /\ completed'[c] = "true"
          /\ (OnNoOpPath(c) /\ pc'[c] # pc[c]) =>
                /\ UNCHANGED <<store, last_sync_time>>
                /\ pc'[c] = "idle"
                /\ ~is_syncing']_vars

\* A no-op attempt over a store whose rows were synced by an earlier
\* attempt.
C6_Witness ==
    \E c \in SyncCtx :
       /\ OnNoOpPath(c)
       /\ TotalRows > 0
       /\ UnsyncedTotal = 0
       /\ Len(sync_log) = 1
       /\ completed[c] = "true"

\* ------------------------------------------------------------------- C7
\* Context c takes one of the three steps of sync_data that log a result.
LogStep(c) == pc[c] \in {"logok", "logfail", "except"} /\ pc'[c] = "finally"

\* C7 as stated: an attempt with a non-zero count that has reached its
\* finally clause has appended exactly one sync_log row.
C7_ExactlyOneRow ==
    \A c \in SyncCtx :
       (pc[c] = "finally" /\ unsynced_count[c] > 0) => logged[c] = 1

\* C7: an attempt with a non-zero count appends one sync_log row on each of
\* its outcomes (success, delivery failure, exception), or none when that
\* insert itself faults, and never more than one; and every step leaves the
\* rows already in sync_log as they are.
C7_OneRowUnlessFault ==
    [][/\ Len(sync_log') >= Len(sync_log)
       /\ SubSeq(sync_log', 1, Len(sync_log)) = sync_log
       /\ \A c \in SyncCtx :
             /\ logged'[c] <= 1
             /\ LogStep(c) =>
                   /\ unsynced_count[c] > 0
                   /\ \/ /\ Len(sync_log') = Len(sync_log) + 1
                         /\ logged'[c] = 1
                      \/ /\ troubles' = troubles + 1
                         /\ UNCHANGED sync_log
                         /\ logged'[c] = 0
             /\ (pc[c] \in Syncing /\ pc'[c] # "idle" /\ ~LogStep(c)) =>
                   logged'[c] = logged[c]]_vars

\* Two attempts with different outcomes have each left their one row.
C7_Witness ==
    /\ Len(sync_log) = 2
    /\ sync_log[1].success = 1
    /\ sync_log[2].success = 0
    /\ \E c \in SyncCtx : pc[c] = "finally" /\ logged[c] = 1

\* ------------------------------------------------------------------- C8
\* C8: the unsynced count equals the number of rows inserted since the last
\* successful mark: N after N inserts into an empty store, 0 after a mark, 1
\* after one more insert.
C8_CountIsInsertsSinceMark == UnsyncedTotal = since_mark

\* A row has been marked and one more row inserted since.
C8_Witness ==
    /\ TotalRows = 2
    /\ UnsyncedTotal = 1
    /\ since_mark = 1

\* ------------------------------------------------------------------- C9
\* C9: no store operation sets the synced flag of a row back to false.
C9_SyncedIsStable ==
    [][\A r \in RowIds : Row(r).synced => Row(r).synced']_vars

\* A session was ended at time 2, after the mark that found it: the other
\* row, inserted at time 1, came after that mark.
C9_Witness ==
    \E i \in 1..Len(eye_sessions) :
       /\ eye_sessions[i].synced
       /\ eye_sessions[i].session_end = 2
       /\ \E r \in UnsyncedRows : r[1] # "eye_sessions" /\ Row(r).timestamp = 1

\* ------------------------------------------------------------------ C10
\* C10: while the timer keeps firing and deliveries keep succeeding, every
\* row persisted unsynced is eventually synced, by the timer's attempts alone.
C10_EventuallySynced ==
    \A r \in Tables \X (1..MaxRows + 1) :
       (r \in RowIds /\ ~Row(r).synced) ~> (r \in RowIds /\ Row(r).synced)

\* A failed attempt left the rows unsynced and a later one synced them.
C10_Witness ==
    /\ Len(sync_log) >= 2
    /\ sync_log[1].success = 0
    /\ sync_log[Len(sync_log)].success = 1
    /\ TotalRows > 0
    /\ UnsyncedTotal = 0
    /\ pc["timer"] = "idle"

\* ------------------------------------------------------------------ C11
\* C11: at no time are two threads inside the write section of a store
\* operation against the one database file, whichever DataManager they
\* call it on.
C11_OneWriterAtATime ==
    Cardinality({t \in Threads : call[t].op \in WriteOps}) <= 1

\* ------------------------------------------------------------------ C12
\* Thread t returns from a store operation in this step.
Returns(t) == call[t] # NoCall /\ call'[t] = NoCall

\* C12: a store operation in which an sqlite3 call raises returns its
\* sentinel (None, 0 or nothing) and never raises; on return, fault or not,
\* the db_lock it took is free again, and a lock is held only while a call
\* is under way on its DataManager, so a later operation can take it.
C12_FaultReturnsSentinel ==
    [][/\ \A t \in Threads :
             Returns(t) =>
                /\ returned'[t] # "raised"
                /\ returned'[t] =
                      IF troubles' # troubles
                      THEN (CASE call[t].op \in {"start_eye_session",
                                                 "get_session_stats",
                                                 "get_database_stats"} -> "None"
                              [] call[t].op = "_get_unsynced_count" -> "0"
                              [] OTHER -> "nothing")
                      ELSE Result(call[t].op)
                /\ ~db_lock'[call[t].manager]
       /\ \A m \in Managers :
             db_lock'[m] => \E t \in Threads : call'[t].manager = m]_vars

\* Two store operations have faulted and returned their sentinels; no lock
\* is held.
C12_Witness ==
    /\ \E t1, t2 \in Threads : returned[t1] = "None" /\ returned[t2] = "0"
    /\ troubles = 2
    /\ \A m \in Managers : ~db_lock[m]
    /\ \A t \in Threads : call[t] = NoCall

\* ------------------------------------------------------------------ C13
\* C13: the process ends only in a step in which the construction of a
\* DataManager fails, and such a step always ends it; the sync timer of a
\* DataManager whose construction failed is not running, a timer runs only
\* on a constructed DataManager; and once startup is over, no step - a
\* sampler call that raises, a store operation that faults - ends the
\* process.
C13_OnlyInitFailureIsFatal ==
    [][/\ process' = "exited" <=>
             \E m \in Managers :
                constructed[m] = "absent" /\ constructed'[m] = "failed"
       /\ \A m \in Managers :
             /\ constructed'[m] = "failed" => ~sync_timer'[m]
             /\ sync_timer'[m] => constructed'[m] = "ready"
       /\ process = "running" => process' = "running"
       /\ (outcome'.raised \/ troubles' # troubles) => process' = "running"]_vars

\* The construction of the dashboard's DataManager failed after that of the
\* main window succeeded: startup is aborted and the failed object's timer
\* was never started.
C13_Witness ==
    /\ process = "exited"
    /\ constructed = [m \in Managers |->
                         IF m = "main_window" THEN "ready" ELSE "failed"]
    /\ sync_timer["main_window"]
    /\ ~sync_timer["dashboard"]

\* ------------------------------------------------------------------ C15
\* C15: in every store state each eye_sessions row, open or ended, has the
\* eye_strain_level that the classification gives for its
\* blinks_per_minute.
C15_StrainIsDerived ==
    \A i \in 1..Len(eye_sessions) :
       eye_sessions[i].eye_strain_level
           = StrainLevel(eye_sessions[i].blinks_per_minute)

\* ------------------------------------------------------------------ C16
\* The columns end_eye_session writes, of the session row with id i.
Summary(sessions, i) ==
    <<sessions[i].session_end, sessions[i].total_blinks,
      sessions[i].blinks_per_minute, sessions[i].eye_strain_level>>

\* C16: once a session row has its session_end set, no store operation
\* changes its session_end, total_blinks, blinks_per_minute or
\* eye_strain_level again; a second end_eye_session on its id leaves them.
C16_SummarySetOnce ==
    [][\A i \in 1..Len(eye_sessions) :
          eye_sessions[i].session_end # NoTime =>
             Summary(eye_sessions', i) = Summary(eye_sessions, i)]_vars

\* ------------------------------------------------------------------ C17
\* C17: every eye_sessions row whose session_end is set has session_end >=
\* session_start, in whatever order start_eye_session and end_eye_session
\* are called while the clock does not go back.
C17_EndNotBeforeStart ==
    \A i \in 1..Len(eye_sessions) :
       eye_sessions[i].session_end # NoTime =>
          eye_sessions[i].session_end >= eye_sessions[i].session_start

\* A session started at time 1 was ended at time 2.
C17_Witness ==
    \E i \in 1..Len(eye_sessions) :
       /\ eye_sessions[i].session_start = 1
       /\ eye_sessions[i].session_end = 2
       /\ eye_sessions[i].total_blinks = 12

\* ------------------------------------------------------------------ C14
\* The strain level as the thresholds state it.
ByThresholds(bpm) ==
    CASE bpm < 10 -> "high"
      [] 10 <= bpm /\ bpm < 15 -> "moderate"
      [] bpm >= 15 -> "normal"

\* The strain level a text of eye_strain_label stands for.
LabelLevel(text) ==
    CASE text = "High Strain" -> "high"
      [] text = "Moderate" -> "moderate"
      [] text = "Normal" -> "normal"

\* C14: the classification is high below 10, moderate from 10 below 15 and
\* normal from 15 on (9 high, 10 and 12 moderate, 15 and 20 normal); the
\* level end_eye_session stores is that classification of the rate it was
\* given, the label the dashboard shows is that classification of the rate
\* it read, and for one and the same rate the two agree.
C14_ClassificationAgrees ==
    /\ <<StrainLevel(9), StrainLevel(10), StrainLevel(12), StrainLevel(15),
         StrainLevel(20)>>
          = <<"high", "moderate", "moderate", "normal", "normal">>
    /\ \A i \in 1..Len(eye_sessions) :
          eye_sessions[i].session_end # NoTime =>
             /\ eye_sessions[i].eye_strain_level
                   = ByThresholds(eye_sessions[i].blinks_per_minute)
             /\ eye_sessions[i].blinks_per_minute = dashboard_widget.bpm =>
                   LabelLevel(dashboard_widget.eye_strain_label)
                       = eye_sessions[i].eye_strain_level
    /\ dashboard_widget.bpm # NoBpm =>
          LabelLevel(dashboard_widget.eye_strain_label)
              = ByThresholds(dashboard_widget.bpm)

\* The session was ended at the boundary rate 10 and the dashboard shows the
\* same rate as "Moderate".
C14_Witness ==
    /\ dashboard_widget.bpm = 10
    /\ dashboard_widget.eye_strain_label = "Moderate"
    /\ eye_sessions[1].session_end # NoTime
    /\ eye_sessions[1].blinks_per_minute = 10
    /\ eye_sessions[1].eye_strain_level = "moderate"

\* ------------------------------------------------------------------ C18
\* The rows of tbl that belong to user_id and whose time column is within
\* days of now.
InWindow(tbl, col, user_id, days) ==
    SelectSeq(tbl, LAMBDA r : r.user_id = user_id /\ r[col] >= now - days)

\* avg is the average of column col over the rows of tbl, and 0 over no row.
IsAverage(avg, tbl, col) ==
    /\ avg.den > 0
    /\ avg.num * Len(tbl) = avg.den * SumOf(tbl, 1..Len(tbl), col)
    /\ Len(tbl) = 0 => avg.num = 0

\* What get_session_stats(user_id, days) returns in the current state.
StatsNow(user_id, days) ==
    SessionStats(eye_sessions, system_metrics, now, user_id, days)

\* C18: in every state, what get_session_stats(user_id, days) returns counts
\* the eye_sessions rows of that user started at now - days or later, gives
\* the averages of total_blinks and blinks_per_minute over those rows, the
\* number of them with strain level high, and the averages of cpu_percent
\* and memory_percent over that user's system_metrics rows of the window; it
\* is what the call returns over these rows alone, whatever other rows the
\* tables hold; one session of 12 blinks at 12 per minute gives 1, 12, 12, 0;
\* and a call that returns stores that value or, on a fault, None.
C18_StatsOverUserWindow ==
    /\ [](\A u \in StatsUsers : \A d \in StatsDays :
            LET r == StatsNow(u, d)
                s == InWindow(eye_sessions, "session_start", u, d)
                m == InWindow(system_metrics, "timestamp", u, d)
            IN  /\ r.eye_stats.session_count = Len(s)
                /\ IsAverage(r.eye_stats.avg_blinks, s, "total_blinks")
                /\ IsAverage(r.eye_stats.avg_bpm, s, "blinks_per_minute")
                /\ r.eye_stats.high_strain_sessions
                      = Len(SelectSeq(s, LAMBDA x : x.eye_strain_level = "high"))
                /\ IsAverage(r.system_stats.avg_cpu, m, "cpu_percent")
                /\ IsAverage(r.system_stats.avg_memory, m, "memory_percent")
                /\ r = SessionStats(s, m, now, u, d)
                /\ (Len(s) = 1 /\ s[1].total_blinks = 12
                        /\ s[1].blinks_per_minute = 12)
                      => r.eye_stats = [session_count |-> 1,
                                        avg_blinks |-> [num |-> 12, den |-> 1],
                                        avg_bpm |-> [num |-> 12, den |-> 1],
                                        high_strain_sessions |-> 0])
    /\ [][stats' # stats =>
             \/ stats' = [returned |-> "None"] /\ troubles' = troubles + 1
             \/ /\ stats'.returned = "dict"
                /\ stats' = StatsNow(stats'.user_id, stats'.days)]_vars

\* The statistics of u1 over one tick were returned from a store that holds
\* u1's session of 12 blinks at 12 per minute, a session of the other user,
\* and a metrics row of the other user: 1, 12, 12, 0 and no metrics.
C18_Witness ==
    /\ stats.returned = "dict"
    /\ stats.user_id = "u1"
    /\ stats.eye_stats = [session_count |-> 1,
                          avg_blinks |-> [num |-> 12, den |-> 1],
                          avg_bpm |-> [num |-> 12, den |-> 1],
                          high_strain_sessions |-> 0]
    /\ stats.system_stats.avg_cpu = [num |-> 0, den |-> 1]
    /\ Len(eye_sessions) = 2
    /\ \E i \in 1..2 : eye_sessions[i].user_id = DemoUser
    /\ Len(system_metrics) = 1

\* ------------------------------------------------------------------ C19
\* A call that did nothing: the object as it was, no error, no signal.
NoOp(obj) == [obj |-> obj, raised |-> FALSE, emitted |-> FALSE]

\* The last sampler call was op and changed neither sampler nor any signal
\* count, raised nothing and emitted nothing.
CalledWithoutEffect(op) ==
    /\ outcome' = [op |-> op, raised |-> FALSE, emitted |-> FALSE]
    /\ UNCHANGED <<eye_tracker, system_monitor, signals>>

\* C19: on the EyeTracker and on the SystemMonitor, start() on a running
\* object and stop() on an idle one return without an error and without a
\* signal and leave the object as it is - is_running, should_stop, the
\* source mode, the thread and the timer, total_blinks, session_start_time
\* and blink_history - in every state the samplers reach; and a step that
\* makes such a call changes nothing but the record of the call.
C19_MisuseIsNoOp ==
    /\ [](/\ eye_tracker.is_running =>
                \A cam_ok, casc_ok, thread_ok \in BOOLEAN :
                   StartedEyeTracker(eye_tracker, cam_ok, casc_ok, thread_ok)
                       = NoOp(eye_tracker)
          /\ ~eye_tracker.is_running =>
                \A joined \in BOOLEAN :
                   StoppedEyeTracker(eye_tracker, joined) = NoOp(eye_tracker)
          /\ system_monitor.is_running =>
                \A thread_ok \in BOOLEAN :
                   StartedSystemMonitor(system_monitor, thread_ok)
                       = NoOp(system_monitor)
          /\ ~system_monitor.is_running =>
                \A joined \in BOOLEAN :
                   StoppedSystemMonitor(system_monitor, joined)
                       = NoOp(system_monitor))
    /\ [][outcome' # outcome =>
             /\ (outcome'.op = "EyeTracker.start" /\ eye_tracker.is_running)
                   => CalledWithoutEffect("EyeTracker.start")
             /\ (outcome'.op = "EyeTracker.stop" /\ ~eye_tracker.is_running)
                   => CalledWithoutEffect("EyeTracker.stop")
             /\ (outcome'.op = "SystemMonitor.start"
                    /\ system_monitor.is_running)
                   => CalledWithoutEffect("SystemMonitor.start")
             /\ (outcome'.op = "SystemMonitor.stop"
                    /\ ~system_monitor.is_running)
                   => CalledWithoutEffect("SystemMonitor.stop")]_vars

\* start() was called on the EyeTracker while it ran with blinks recorded:
\* it emitted nothing, and the one earlier start is the only one signalled.
\* The SystemMonitor was never started.
C19_Witness ==
    /\ outcome = [op |-> "EyeTracker.start", raised |-> FALSE,
                  emitted |-> FALSE]
    /\ eye_tracker.is_running
    /\ eye_tracker.total_blinks > 0
    /\ Len(eye_tracker.blink_history) > 0
    /\ signals["tracking_started"] = 1
    /\ signals["monitoring_started"] = 0

\* ------------------------------------------------------------------ C20
\* A step that is a call of EyeTracker.start() on the idle object.
StartFromIdle ==
    /\ ~eye_tracker.is_running
    /\ outcome'.op = "EyeTracker.start"
    /\ <<eye_tracker, outcome>>' # <<eye_tracker, outcome>>

\* C20 as stated: every start() from idle ends with is_running = true and
\* without an error.
C20_AlwaysRunning ==
    [][StartFromIdle => (eye_tracker'.is_running /\ ~outcome'.raised)]_vars

\* C20: start() on the idle EyeTracker ends with is_running = true, unless
\* Thread.start() raises in live mode: then is_running is false and the
\* error goes to the caller.  In both cases simulation_mode is true iff the
\* capture device could not be opened or the detector could not be loaded,
\* camera_available = not simulation_mode, and a device or detector that is
\* not available raises nothing; in simulated mode no tracking thread is
\* started and the simulation timer is armed, in live mode the timer is not
\* armed.
C20_StartSelectsOneMode ==
    /\ [](~eye_tracker.is_running =>
             \A cam_ok, casc_ok, thread_ok \in BOOLEAN :
                LET r == StartedEyeTracker(eye_tracker, cam_ok, casc_ok,
                                           thread_ok)
                    live == cam_ok /\ casc_ok
                IN  /\ r.raised <=> (live /\ ~thread_ok)
                    /\ r.obj.is_running <=> ~r.raised
                    /\ r.emitted <=> ~r.raised
                    /\ r.obj.simulation_mode <=> ~live
                    /\ r.obj.camera_available <=> ~r.obj.simulation_mode
                    /\ r.obj.simulation_mode =>
                          /\ r.obj.simulation_timer
                          /\ r.obj.tracking_thread = eye_tracker.tracking_thread
                          /\ r.obj.old_loops = eye_tracker.old_loops
                    /\ ~r.obj.simulation_mode =>
                          /\ ~r.obj.simulation_timer
                          /\ r.obj.is_running =>
                                r.obj.tracking_thread = "alive")
    /\ [][StartFromIdle =>
             /\ eye_tracker'.is_running <=> ~outcome'.raised
             /\ eye_tracker'.camera_available <=> ~eye_tracker'.simulation_mode
             /\ eye_tracker'.simulation_mode =>
                   /\ ~outcome'.raised
                   /\ eye_tracker'.simulation_timer
                   /\ eye_tracker'.tracking_thread = eye_tracker.tracking_thread
             /\ ~eye_tracker'.simulation_mode =>
                   ~eye_tracker'.simulation_timer]_vars

\* After a session in simulation mode that recorded a blink and was
\* stopped, start() found the camera and the detector and runs live: the
\* tracking thread is alive, the timer is not armed, the counters are reset.
C20_Witness ==
    /\ outcome = [op |-> "EyeTracker.start", raised |-> FALSE,
                  emitted |-> TRUE]
    /\ eye_tracker.is_running
    /\ ~eye_tracker.simulation_mode
    /\ eye_tracker.camera_available
    /\ eye_tracker.tracking_thread = "alive"
    /\ ~eye_tracker.simulation_timer
    /\ eye_tracker.total_blinks = 0
    /\ eye_tracker.last_blink_time # NoTime
    /\ signals["tracking_started"] = 2
    /\ signals["tracking_stopped"] = 1

\* ------------------------------------------------------------------ C21
\* The frames with both eyes that come right after blink_threshold or more
\* consecutive frames without.
BlinkFrames(observed) ==
    {i \in 1..Len(observed) :
        /\ observed[i]
        /\ i > blink_threshold
        /\ \A k \in (i - blink_threshold)..(i - 1) : ~observed[k]}

\* The frames without both eyes at the end of the sequence.
RECURSIVE ClosedRun(_)
ClosedRun(observed) ==
    IF observed = <<>> \/ observed[Len(observed)] THEN 0
    ELSE 1 + ClosedRun(SubSeq(observed, 1, Len(observed) - 1))

\* C21: for every sequence of frames the loop has analysed, the blinks
\* emitted are as many as the runs of 5 or more closed frames that an open
\* frame ends, a shorter run emits none, a frame emits at most one blink,
\* and eye_closed_frames counts the closed frames since the last open one (0
\* after an open frame).
C21_BlinkPerLongRun ==
    /\ [](/\ signals["blink_detected"]
                = Cardinality(BlinkFrames(tracking_loop.observed))
          /\ eye_tracker.total_blinks = signals["blink_detected"]
          /\ tracking_loop.eye_closed_frames
                = ClosedRun(tracking_loop.observed))
    /\ [][/\ signals'["blink_detected"] <= signals["blink_detected"] + 1
          /\ signals'["blink_detected"] > signals["blink_detected"] =>
                /\ tracking_loop.eye_closed_frames >= blink_threshold
                /\ tracking_loop'.eye_closed_frames = 0]_vars

\* Twelve frames gave two blinks: two runs of five closed frames, each ended
\* by an open frame.
C21_Witness ==
    /\ signals["blink_detected"] = 2
    /\ Len(tracking_loop.observed) = 12
    /\ tracking_loop.eye_closed_frames = 0

\* ------------------------------------------------------------------ C22
\* The timestamps of a sequence that are later than five minutes before the
\* time given, in their order.
LastFiveMinutes(timestamps, time) ==
    SelectSeq(timestamps, LAMBDA t : t > time - BlinkWindow)

\* total_blinks counts the blinks emitted since start() and last_blink_time
\* is the timestamp of the latest of them.
CountsBlinks ==
    /\ eye_tracker.total_blinks = Len(emitted_blinks)
    /\ emitted_blinks # <<>> =>
          eye_tracker.last_blink_time = emitted_blinks[Len(emitted_blinks)]

ElapsedFloor(et) ==
    IF now - et.session_start_time < 1 THEN 1 ELSE now - et.session_start_time

\* The quotient q is total / minutes.
IsQuotient(q, total, minutes) ==
    q.den >= 1 /\ q.num * minutes = total * q.den

\* C23: the blinks per minute of every snapshot, and of a snapshot taken in
\* any state, is total_blinks / max(1, elapsed minutes) with a divisor of at
\* least 1 and a value of at most total_blinks; for the same elapsed time it
\* does not decrease as total_blinks grows; without a session it is 0.
C23_BlinkRate ==
    /\ [](LET d == CurrentData(eye_tracker)
              q == d.blinks_per_minute
              At(n) == CurrentData([eye_tracker EXCEPT !.total_blinks = n])
                          .blinks_per_minute
          IN  /\ q.den >= 1
              /\ q.num <= d.total_blinks * q.den
              /\ eye_tracker.session_start_time # NoTime =>
                    IsQuotient(q, eye_tracker.total_blinks,
                               ElapsedFloor(eye_tracker))
              /\ eye_tracker.session_start_time = NoTime => q.num = 0
              /\ \A n1, n2 \in 0..MaxSessionBlinks :
                    n1 <= n2 => At(n1).num * At(n2).den
                                    <= At(n2).num * At(n1).den)
    /\ [][blink_data' # blink_data /\ blink_data'.returned = "data" =>
            LET q == blink_data'.blinks_per_minute
            IN  /\ q.den >= 1
                /\ q.num <= eye_tracker.total_blinks * q.den
                /\ blink_data'.total_blinks = eye_tracker.total_blinks
                /\ IF eye_tracker.session_start_time = NoTime
                   THEN q.num = 0
                   ELSE IsQuotient(q, eye_tracker.total_blinks,
                                   ElapsedFloor(eye_tracker))]_vars

\* A snapshot taken in the minute the session started, with two blinks
\* counted: the divisor is 1.
C23_Witness ==
    /\ blink_data.returned = "data"
    /\ blink_data.total_blinks = 2
    /\ blink_data.blinks_per_minute = [num |-> 2, den |-> 1]
    /\ eye_tracker.session_start_time = now

\* ------------------------------------------------------------------ C24
\* C24: stop() releases the capture device only once every tracking loop has
\* exited or its bounded wait for the thread has ended, and a loop inside an
\* iteration never checks or reads a device that stop() has released or set
\* to None.
C24_ReleaseAfterLoop ==
    /\ [][eye_tracker.camera # "released" /\ eye_tracker'.camera = "released"
            => \/ \A i \in LoopIds : ~Live(i)
               \/ gui.waited # "none"]_vars
    /\ [][\A i \in LoopIds :
            loops[i].pc \in {"isOpened", "read"} /\ loops'[i] # loops[i]
                => eye_tracker.camera \notin {"released", "None"}]_vars

\* ------------------------------------------------------------------ C26
\* total_blinks, last_blink_time and blink_history.
Aggregation ==
    <<eye_tracker.total_blinks, eye_tracker.last_blink_time,
      eye_tracker.blink_history>>

\* C26: while a tracking loop is live only a step of a tracking loop writes
\* total_blinks, last_blink_time or blink_history, and total_blinks is never
\* less than the number of blinks emitted since it was last reset.
C26_LoopOwnsAggregation ==
    /\ [][(\E i \in LoopIds : Live(i)) /\ Aggregation' # Aggregation
            => loops' # loops /\ Len(loops') = Len(loops)]_vars
    /\ [](eye_tracker.total_blinks >= Len(emitted_blinks))

\* ------------------------------------------------------------------ C25
\* C25: when a stop() of a running sampler returns, is_running is false and
\* (for the EyeTracker) the capture device is released, and every loop thread
\* of a start() before it eventually terminates, whatever is called
\* afterwards.
C25_StoppedLoopsEnd ==
    /\ [][gui.pc # "idle" /\ gui'.pc = "idle"
            => ~eye_tracker'.is_running /\ eye_tracker'.camera = "None"]_vars
    /\ [][signals'["monitoring_stopped"] # signals["monitoring_stopped"]
            => ~system_monitor'.is_running]_vars
    /\ \A i \in 1..MaxStarts :
          (i \in LoopIds /\ Live(i) /\ eye_tracker.should_stop)
              ~> (i \in LoopIds /\ ~Live(i))
    /\ (system_monitor.old_loops > 0) ~> (system_monitor.old_loops = 0)

\* ------------------------------------------------------------------ C27
\* C27: every snapshot get_current_data() has returned is current_metrics
\* as it was at construction or at the end of one iteration of the loop.
C27_SnapshotFromOneTick ==
    system_data.returned = "data" =>
        system_data.metrics \in monitoring_loop.completed

\* ------------------------------------------------------------------ C28
\* The fields of current_metrics an _update_ call writes.
FieldsRead(step) ==
    CASE step = "cpu" -> {"cpu_percent"}
      [] step = "memory" -> {"memory_percent"}
      [] step = "disk" -> {"disk_usage_percent"}
      [] step = "network" -> {"network_available"}
      [] step = "battery" -> {"battery_percent", "power_connected"}
      [] step = "process_count" -> {"process_count"}
      [] OTHER -> {}

\* The _update_ calls of an iteration.
Reads == {"cpu", "memory", "disk", "network", "battery", "process_count"}

\* C28: whichever reads of an iteration fail, each _update_ call leaves the
\* loop at the next call, stores the reading of the iteration or (but for
\* the network) leaves its fields as they were, and touches no other field;
\* every iteration begun emits metrics_updated once, and the loop ends only
\* when should_stop is set.
C28_FailedReadsKeepTick ==
    /\ [](/\ signals["metrics_updated"] =
                IF monitoring_loop.pc \in Reads \cup {"emit"}
                THEN monitoring_loop.tick - 1 ELSE monitoring_loop.tick
          /\ monitoring_loop.pc = "ended" => system_monitor.should_stop)
    /\ [][monitoring_loop.pc \in Reads /\ monitoring_loop' # monitoring_loop =>
            LET step == monitoring_loop.pc
                old == system_monitor.current_metrics
                new == system_monitor'.current_metrics
                kept == \A f \in FieldsRead(step) : new[f] = old[f]
            IN  /\ monitoring_loop'.pc \in Reads \cup {"emit"}
                /\ monitoring_loop'.pc # step
                /\ \A f \in DOMAIN old \ FieldsRead(step) : new[f] = old[f]
                /\ step \notin {"network", "battery"} =>
                      kept \/ \A f \in FieldsRead(step) :
                                  new[f] = monitoring_loop.tick
                /\ step = "battery" =>
                      kept \/ /\ new.battery_percent = monitoring_loop.tick
                              /\ new.power_connected \in {"True", "False"}]_vars

\* An iteration completed and emitted with the reads of CPU, disk, network
\* and battery failed and those of memory and process count refreshed.
C28_Witness ==
    /\ monitoring_loop.pc = "while"
    /\ monitoring_loop.tick = 1
    /\ signals["metrics_updated"] = 1
    /\ monitoring_loop.probe = "error"
    /\ system_monitor.current_metrics.cpu_percent = 0
    /\ system_monitor.current_metrics.disk_usage_percent = 0
    /\ system_monitor.current_metrics.battery_percent = NoValue
    /\ system_monitor.current_metrics.memory_percent = 1
    /\ system_monitor.current_metrics.process_count = 1

\* ------------------------------------------------------------------ C29
\* C29: network_available is false until the first probe and from then on
\* true exactly when the most recent probe connected, whichever way a probe
\* failed; the probe leaves the loop at the next call and changes no other
\* metric.
C29_NetworkFollowsProbe ==
    /\ [](system_monitor.current_metrics.network_available
            = (monitoring_loop.probe = "connected"))
    /\ [][monitoring_loop.pc = "network" /\ monitoring_loop' # monitoring_loop
            => /\ monitoring_loop'.pc = "battery"
               /\ \A f \in DOMAIN system_monitor.current_metrics
                            \ {"network_available"} :
                     system_monitor'.current_metrics[f]
                        = system_monitor.current_metrics[f]]_vars

\* The probe of the second iteration ended in an exception other than
\* socket.error: network_available is false, the CPU reading is that of the
\* second iteration.
C29_Witness ==
    /\ monitoring_loop.tick = 2
    /\ monitoring_loop.pc = "while"
    /\ monitoring_loop.probe = "error"
    /\ ~system_monitor.current_metrics.network_available
    /\ system_monitor.current_metrics.cpu_percent = 2

\* ------------------------------------------------------------------ C30
\* C30: on a host without a battery every snapshot returned and every
\* system_metrics row has neither a battery percentage nor a power_connected
\* value.
C30_NoBatteryIsNull ==
    monitoring_loop.host # "laptop" =>
        /\ system_data.returned = "data" =>
              /\ system_data.metrics.battery_percent = NoValue
              /\ system_data.metrics.power_connected = "None"
        /\ \A i \in 1..Len(system_metrics) :
              /\ system_metrics[i].battery_percent = NoValue
              /\ system_metrics[i].power_connected = NoValue

\* ------------------------------------------------------------------ C31
\* A column of a stored row other than synced.
SameButSynced(old, new) ==
    \A f \in DOMAIN old \ {"synced"} : new[f] = old[f]

\* C31: a system_metrics row is inserted exactly when an iteration of the
\* monitoring loop completes (with monitoring active every completed
\* iteration inserts one row, and no row is inserted otherwise), and a
\* system_metrics or blink_events row keeps every column but synced.
C31_RowPerTick ==
    [][/\ (/\ dashboard_widget.is_monitoring
           /\ signals'["metrics_updated"] = signals["metrics_updated"] + 1)
          => Len(system_metrics') = Len(system_metrics) + 1
       /\ Len(system_metrics') # Len(system_metrics)
          => /\ Len(system_metrics') = Len(system_metrics) + 1
             /\ signals'["metrics_updated"] = signals["metrics_updated"] + 1
       /\ \A i \in 1..Len(system_metrics) :
             SameButSynced(system_metrics[i], system_metrics'[i])
       /\ \A i \in 1..Len(blink_events) :
             SameButSynced(blink_events[i], blink_events'[i])]_vars

\* ------------------------------------------------------------------ C32
\* C32: there are as many blink_events rows as blinks were emitted, and the
\* session_id of each is the id of an eye_sessions row that is open.
C32_RowPerBlink ==
    /\ Len(blink_events) = signals["blink_detected"]
    /\ \A i \in 1..Len(blink_events) :
          /\ blink_events[i].session_id \in 1..Len(eye_sessions)
          /\ eye_sessions[blink_events[i].session_id].session_end = NoTime

\* ------------------------------------------------------------------ C33
\* The eye_sessions rows without a session_end.
OpenSessions ==
    {i \in 1..Len(eye_sessions) : eye_sessions[i].session_end = NoTime}

\* C33: there are as many eye_sessions rows as monitoring was started, one
\* of them is open while monitoring is on and none while it is off.
C33_SessionPerStart ==
    /\ Len(eye_sessions) = dashboard_widget.starts
    /\ Cardinality(OpenSessions) <= 1
    /\ dashboard_widget.is_monitoring => Cardinality(OpenSessions) = 1
    /\ ~dashboard_widget.is_monitoring => OpenSessions = {}

\* ------------------------------------------------------------------ C39
\* C39: with is_monitoring false neither sampler runs and both timers are
\* stopped; with is_monitoring true both samplers run.
C39_FlagAgreesWithSamplers ==
    /\ ~dashboard_widget.is_monitoring
          => /\ ~eye_tracker.is_running
             /\ ~system_monitor.is_running
             /\ ~dashboard_widget.update_timer
             /\ ~dashboard_widget.save_timer
    /\ dashboard_widget.is_monitoring
          => /\ eye_tracker.is_running
             /\ system_monitor.is_running

\* ------------------------------------------------------------------ C40
\* C40: a successful start() from idle leaves total_blinks = 0, an empty
\* window, the new session_start_time and no last_blink_time; and in every
\* state total_blinks = 0 implies that last_blink_time is unset.
C40_FreshSession ==
    /\ [](eye_tracker.total_blinks = 0
             => eye_tracker.last_blink_time = NoTime)
    /\ [][(StartFromIdle /\ ~outcome'.raised)
             => /\ eye_tracker'.total_blinks = 0
                /\ eye_tracker'.blink_history = <<>>
                /\ eye_tracker'.session_start_time = now
                /\ eye_tracker'.last_blink_time = NoTime]_vars

\* ------------------------------------------------------------------ C37
\* The threads of SystemMonitor._monitoring_loop that have not ended.
MonitoringLoops ==
    (IF system_monitor.monitoring_thread = "alive" THEN 1 ELSE 0)
        + system_monitor.old_loops

\* C37: of each sampler at most one loop thread is live in any state.
C37_OneLoopPerSampler ==
    /\ Cardinality({i \in LoopIds : Live(i)}) <= 1
    /\ MonitoringLoops <= 1

\* ------------------------------------------------------------------ C38
\* C38: in a step taken with the EyeTracker stopped (no call of stop() in
\* progress) that is not a start(), blink_detected is not emitted, no blink
\* is counted or added to the window and last_blink_time keeps its value.
C38_NoBlinkWhenStopped ==
    [][(gui.pc = "idle" /\ ~eye_tracker.is_running
            /\ ~eye_tracker'.is_running)
          => /\ signals'["blink_detected"] = signals["blink_detected"]
             /\ eye_tracker'.total_blinks <= eye_tracker.total_blinks
             /\ eye_tracker'.last_blink_time = eye_tracker.last_blink_time
             /\ Len(eye_tracker'.blink_history)
                    <= Len(eye_tracker.blink_history)]_vars

\* ------------------------------------------------------------------ C36
\* C36: in the step in which an attempt reports success, the rows that were
\* unsynced when the attempt queried the store are synced: on the path with
\* nothing to sync there is no unsynced row, and on the path through the mark
\* every row of the attempt's batch is synced.
C36_SuccessMeansSynced ==
    [][\A c \in SyncCtx :
          (completed[c] # "true" /\ completed'[c] = "true") =>
             /\ pc[c] = "count" => UnsyncedRows = {}
             /\ pc[c] = "logok" => \A r \in batch[c] : Row(r).synced']_vars

\* ------------------------------------------------------------------ C34
\* C34: while an attempt is under way (is_syncing) the foreground thread can
\* run the slot of the save timer, if that timer is started, and can take a
\* second trigger of sync_data; and the attempt has posted its status when
\* it returns.
C34_ForegroundNotBlocked ==
    /\ [](is_syncing =>
            /\ (dashboard_widget.save_timer
                    /\ Len(system_metrics) < MaxRows)
                  => ENABLED SaveTimerSlot
            /\ Len(sync_log) < MaxLog => ENABLED SyncTimerSlot)
    /\ [][pc["timer"] = "finally" /\ pc'["timer"] = "idle"
            => completed["timer"] \in {"true", "false"}]_vars

\* ------------------------------------------------------------------ C35
\* C35: the simulation timer is started exactly while the EyeTracker runs in
\* simulated mode, with an interval of 3000 to 8000 ms; each expiry records
\* one blink and starts the timer with such an interval again; while the
\* timer is started another blink follows every blink; and with the timer
\* stopped no blink is recorded.
C35_SimulatedBlinks ==
    /\ [](/\ eye_tracker.simulation_timer
               <=> (eye_tracker.is_running /\ eye_tracker.simulation_mode)
          /\ eye_tracker.simulation_timer
               => eye_tracker.interval \in MinInterval..MaxInterval)
    /\ [][signals'["blink_detected"] # signals["blink_detected"]
            => /\ eye_tracker.simulation_timer
               /\ signals'["blink_detected"] = signals["blink_detected"] + 1
               /\ eye_tracker'.total_blinks = eye_tracker.total_blinks + 1
               /\ eye_tracker'.last_blink_time = now
               /\ eye_tracker'.simulation_timer
               /\ eye_tracker'.interval \in MinInterval..MaxInterval]_vars
    /\ [][~eye_tracker.simulation_timer
            => /\ signals'["blink_detected"] = signals["blink_detected"]
               /\ eye_tracker'.last_blink_time
                      = eye_tracker.last_blink_time]_vars
    /\ \A n \in 0..(MaxBlinks - 1) :
          (eye_tracker.simulation_timer /\ signals["blink_detected"] = n)
              ~> (signals["blink_detected"] > n
                      \/ ~eye_tracker.simulation_timer)

\* Two blinks were recorded in simulated mode, the second with the longest
\* interval drawn, and stop() has stopped the timer.
C35_Witness ==
    /\ signals["blink_detected"] = 2
    /\ eye_tracker.total_blinks = 2
    /\ eye_tracker.simulation_mode
    /\ eye_tracker.interval = MaxInterval
    /\ ~eye_tracker.is_running
    /\ ~eye_tracker.simulation_timer
    /\ signals["tracking_stopped"] = 1

====
